---- MODULE Spec2Model ----
(***************************************************************************)
(* Bounds comparator / randomness scorer of Random-Challenge               *)
(* (src/checker/randomness_checker.py, check_sequence_randomness).         *)
(*                                                                         *)
(* Numbers.  Metric values, means, standard deviations and bounds are      *)
(* integers counting a fixed unit (0.005 in the redundancy example of      *)
(* example_usage.py: 0.045 is 9, the 95% bounds [0.005, 0.025] are [1, 5], *)
(* the mean 0.015 is 3 and the std 0.005 is 1).  A quotient the code       *)
(* computes with "/" is kept as the pair [n, d] and compared by cross      *)
(* multiplication, so no quotient is rounded.  A division by zero is what  *)
(* Python makes of it: ZeroDivisionError for built-in floats, inf or nan   *)
(* (with a warning) when the dividend is a numpy.float64.                  *)
(***************************************************************************)
EXTENDS Integers, Sequences, FiniteSets, TLC

VARIABLES test_metrics, bounds_table, value_type, results

\* The metric library and the feature aggregator: the sequence (or batch of
\* sequences) a caller passes, the state of Python's global random generator
\* (seeded once when metrics.py is imported), the bounds files on disk and
\* what the library calls made so far returned.
VARIABLES sequence, batch, random_state, bounds_files, output

checker_vars == <<test_metrics, bounds_table, value_type, results>>

library_vars == <<sequence, batch, random_state, bounds_files, output>>

vars == <<test_metrics, bounds_table, value_type, results,
          sequence, batch, random_state, bounds_files, output>>

(***************************************************************************)
(* Bounds of the model.                                                    *)
(***************************************************************************)
MaxRows == 2
MaxVal == 4
MaxEntryVal == 9
MaxCalls == 3
MaxLen == 3
MatrixBase == 3
MaxBatch == 3
MaxLongLen == 5
MaxTpiLen == 7

ConfidenceLevels == {95, 99}

\* The type of the record's values: the repository's callers pass built-in
\* floats (float(...) in local_server.py, literals in example_usage.py); the
\* numpy scalar is what a caller computing with numpy passes.
ValueTypes == {"float", "numpy.float64"}

NotCalled == [called |-> FALSE]

\* random.seed(42) at the import of metrics.py; the state of the generator is
\* the seed and the number of values drawn since.
Seed == 42
NumTrials == 1000
Base == 10
MaxStep == 5

NoOutput == [op |-> "none"]

Absent == [present |-> FALSE]
NoFiles == [script_dir |-> Absent, cwd |-> Absent]
NoIds == [given |-> FALSE]
NoBatch == [sequences |-> <<>>, sequence_ids |-> NoIds]

\* No library call is made: the library's state as it is after the import.
LibraryIdle ==
    /\ sequence = [kind |-> "list", items |-> <<>>]
    /\ batch = NoBatch
    /\ random_state = [seed |-> Seed, drawn |-> 0]
    /\ bounds_files = NoFiles
    /\ output = NoOutput

(***************************************************************************)
(* get_required_metrics: the hardcoded list of the 27 metric names.        *)
(***************************************************************************)
get_required_metrics ==
    << "redundancy", "coupon_mean", "coupon_std", "repetition_gap_mean",
       "repetition_gap_std", "adjacent", "tpi", "pl1", "pl2", "pl3", "pl4",
       "pl5", "rp", "autocorr_lag1", "adjacent_diff_mean", "adjacent_diff_std",
       "max_min_ratio", "freq_0", "freq_1", "freq_2", "freq_3", "freq_4",
       "freq_5", "freq_6", "freq_7", "freq_8", "freq_9" >>

(***************************************************************************)
(* Arithmetic of the code's expressions.                                   *)
(***************************************************************************)
Abs(x) == IF x < 0 THEN -x ELSE x

\* n / d as Python evaluates it for operands of type vt.
Divide(n, d, vt) ==
    IF d # 0 THEN [kind |-> "ratio", n |-> n, d |-> d]
    ELSE IF vt = "float" THEN [kind |-> "ZeroDivisionError"]
    ELSE IF n = 0 THEN [kind |-> "nan"]
    ELSE [kind |-> "inf"]

\* q > a/b for a quotient q with positive denominator and b > 0.
RatioGreater(q, a, b) == q.n * b > a * q.d

\* LowerBound with the two confidence levels' columns exchanged.
LowerBoundOfOtherLevel(row, confidence_level) ==
    IF confidence_level = 95 THEN row.bound_99_lower ELSE row.bound_95_lower

\* row[bound_col + 'lower'], row[bound_col + 'upper'] with
\* bound_col = f'bound_{confidence_level}_'.
LowerBound(row, confidence_level) ==
    IF confidence_level = 95 THEN row.bound_95_lower ELSE row.bound_99_lower

UpperBound(row, confidence_level) ==
    IF confidence_level = 95 THEN row.bound_95_upper ELSE row.bound_99_upper

\* The denominator of relative_distance.
RelativeDenominator(row) ==
    IF row.expected_mean > 0 THEN row.expected_mean ELSE 1

\* Severity with the thresholds included (>= for >).
SeverityInclusive(relative_distance) ==
    IF relative_distance.n >= relative_distance.d THEN "extreme"
    ELSE IF relative_distance.n * 2 >= relative_distance.d THEN "high"
    ELSE "moderate"

Severity(relative_distance) ==
    IF RatioGreater(relative_distance, 1, 1) THEN "extreme"
    ELSE IF RatioGreater(relative_distance, 1, 2) THEN "high"
    ELSE "moderate"

\* lower <= value <= upper
InBounds(value, lower, upper) == lower <= value /\ value <= upper

\* The entry appended to within_bounds.
WithinEntry(row, value, lower, upper, vt) ==
    [metric |-> row.metric,
     value |-> value,
     expected_range |-> <<lower, upper>>,
     distance_from_mean |->
         Divide(Abs(value - row.expected_mean), row.expected_std, vt)]

\* OutlierEntry with the two direction labels exchanged.
OutlierEntryDirectionsExchanged(row, value, lower, upper, vt) ==
    LET below == value < lower
        distance_from_bound == IF below THEN lower - value ELSE value - upper
        relative_distance ==
            [kind |-> "ratio", n |-> distance_from_bound,
             d |-> RelativeDenominator(row)]
    IN  [metric |-> row.metric,
         value |-> value,
         expected_range |-> <<lower, upper>>,
         distance_from_bound |-> distance_from_bound,
         relative_distance |-> relative_distance,
         direction |-> IF below THEN "above" ELSE "below",
         severity |-> Severity(relative_distance),
         std_distance |->
             Divide(Abs(value - row.expected_mean), row.expected_std, vt),
         interpretation |-> row.interpretation]

\* The entry appended to outliers.
OutlierEntry(row, value, lower, upper, vt) ==
    LET below == value < lower
        distance_from_bound == IF below THEN lower - value ELSE value - upper
        relative_distance ==
            [kind |-> "ratio", n |-> distance_from_bound,
             d |-> RelativeDenominator(row)]
    IN  [metric |-> row.metric,
         value |-> value,
         expected_range |-> <<lower, upper>>,
         distance_from_bound |-> distance_from_bound,
         relative_distance |-> relative_distance,
         direction |-> IF below THEN "below" ELSE "above",
         severity |-> Severity(relative_distance),
         std_distance |->
             Divide(Abs(value - row.expected_mean), row.expected_std, vt),
         interpretation |-> row.interpretation]

\* ClassifyRow with the "else" of the bounds test lost: a value inside the
\* bounds is appended to within_bounds and to outliers.
ClassifyRowWithoutElse(acc, row, metrics, confidence_level, vt) ==
    IF acc.raised # "none" THEN acc
    ELSE IF row.metric \notin DOMAIN metrics
    THEN [acc EXCEPT !.missing_metrics = Append(@, row.metric)]
    ELSE
      LET value == metrics[row.metric]
          lower == LowerBound(row, confidence_level)
          upper == UpperBound(row, confidence_level)
          w == WithinEntry(row, value, lower, upper, vt)
          o == OutlierEntry(row, value, lower, upper, vt)
      IN  IF o.std_distance.kind = "ZeroDivisionError"
          THEN [acc EXCEPT !.raised = "ZeroDivisionError"]
          ELSE IF InBounds(value, lower, upper)
          THEN [acc EXCEPT !.within_bounds = Append(@, w),
                           !.outliers = Append(@, o)]
          ELSE [acc EXCEPT !.outliers = Append(@, o)]

\* One iteration of the loop over bounds_table.iterrows(): acc holds the three
\* lists and the exception raised so far, if any.
ClassifyRow(acc, row, metrics, confidence_level, vt) ==
    IF acc.raised # "none" THEN acc
    ELSE IF row.metric \notin DOMAIN metrics
    THEN [acc EXCEPT !.missing_metrics = Append(@, row.metric)]
    ELSE
      LET value == metrics[row.metric]
          lower == LowerBound(row, confidence_level)
          upper == UpperBound(row, confidence_level)
      IN  IF InBounds(value, lower, upper)
          THEN LET e == WithinEntry(row, value, lower, upper, vt)
               IN  IF e.distance_from_mean.kind = "ZeroDivisionError"
                   THEN [acc EXCEPT !.raised = "ZeroDivisionError"]
                   ELSE [acc EXCEPT !.within_bounds = Append(@, e)]
          ELSE LET e == OutlierEntry(row, value, lower, upper, vt)
               IN  IF e.std_distance.kind = "ZeroDivisionError"
                   THEN [acc EXCEPT !.raised = "ZeroDivisionError"]
                   ELSE [acc EXCEPT !.outliers = Append(@, e)]

\* The names of S in some order.
RECURSIVE SetToSeq(_)
SetToSeq(S) ==
    IF S = {} THEN <<>>
    ELSE LET x == CHOOSE y \in S : TRUE IN <<x>> \o SetToSeq(S \ {x})

\* ClassifyRows followed by a pass that reports as missing every key of the
\* record that no table row names.
RECURSIVE ClassifyRowsThenRecordKeys(_, _, _, _, _, _)
ClassifyRowsThenRecordKeys(acc, table, i, metrics, confidence_level, vt) ==
    IF i > Len(table)
    THEN IF acc.raised # "none" THEN acc
         ELSE [acc EXCEPT !.missing_metrics =
                 @ \o SetToSeq(DOMAIN metrics \
                               { table[k].metric : k \in DOMAIN table })]
    ELSE ClassifyRowsThenRecordKeys(
             ClassifyRow(acc, table[i], metrics, confidence_level, vt),
             table, i + 1, metrics, confidence_level, vt)

RECURSIVE ClassifyRows(_, _, _, _, _, _)
ClassifyRows(acc, table, i, metrics, confidence_level, vt) ==
    IF i > Len(table) THEN acc
    ELSE ClassifyRows(ClassifyRow(acc, table[i], metrics, confidence_level, vt),
                      table, i + 1, metrics, confidence_level, vt)

\* RandomnessScore counting the outliers in place of the metrics within bounds.
RandomnessScoreOfOutliers(within_count, total_tested) ==
    IF total_tested > 0
    THEN [kind |-> "ratio", n |-> total_tested - within_count, d |-> total_tested]
    ELSE [kind |-> "ratio", n |-> 0, d |-> 1]

\* randomness_score = len(within_bounds) / total_tested if total_tested > 0 else 0
RandomnessScore(within_count, total_tested) ==
    IF total_tested > 0
    THEN [kind |-> "ratio", n |-> within_count, d |-> total_tested]
    ELSE [kind |-> "ratio", n |-> 0, d |-> 1]

\* Assessment with the thresholds included (>= for >).
AssessmentInclusive(randomness_score) ==
    IF randomness_score.n * 100 >= 90 * randomness_score.d THEN "highly_likely_random"
    ELSE IF randomness_score.n * 100 >= 80 * randomness_score.d THEN "likely_random"
    ELSE IF randomness_score.n * 100 >= 70 * randomness_score.d THEN "possibly_random"
    ELSE IF randomness_score.n * 100 >= 50 * randomness_score.d THEN "possibly_non_random"
    ELSE "likely_non_random"

Assessment(randomness_score) ==
    IF RatioGreater(randomness_score, 90, 100) THEN "highly_likely_random"
    ELSE IF RatioGreater(randomness_score, 80, 100) THEN "likely_random"
    ELSE IF RatioGreater(randomness_score, 70, 100) THEN "possibly_random"
    ELSE IF RatioGreater(randomness_score, 50, 100) THEN "possibly_non_random"
    ELSE "likely_non_random"

\* SevereOutliers keeping the "extreme" outliers only.
SevereOutliersExtremeOnly(outliers) ==
    SelectSeq(outliers, LAMBDA o : o.severity = "extreme")

\* severe_outliers = [o for o in outliers if o['severity'] in ['high', 'extreme']]
SevereOutliers(outliers) ==
    SelectSeq(outliers, LAMBDA o : o.severity \in {"high", "extreme"})

\* check_sequence_randomness with the three lists kept between calls (lists
\* created once, at module level or as default arguments): a call starts from
\* the lists the previous call at this level left.
check_sequence_randomness_keeping_lists(metrics, table, confidence_level, vt) ==
    LET kept == results[confidence_level]
        start == IF kept.called /\ kept.raised = "none"
                 THEN [outliers |-> kept.outliers,
                       within_bounds |-> kept.within_bounds,
                       missing_metrics |-> kept.missing_metrics,
                       raised |-> "none"]
                 ELSE [outliers |-> <<>>, within_bounds |-> <<>>,
                       missing_metrics |-> <<>>, raised |-> "none"]
        acc == ClassifyRows(start, table, 1, metrics, confidence_level, vt)
        total_tested == Len(acc.within_bounds) + Len(acc.outliers)
        randomness_score == RandomnessScore(Len(acc.within_bounds), total_tested)
    IN  IF acc.raised # "none"
        THEN [called |-> TRUE, raised |-> acc.raised]
        ELSE [called |-> TRUE,
              raised |-> "none",
              randomness_score |-> randomness_score,
              assessment |-> Assessment(randomness_score),
              confidence_level |-> confidence_level,
              total_metrics_tested |-> total_tested,
              within_bounds_count |-> Len(acc.within_bounds),
              outlier_count |-> Len(acc.outliers),
              severe_outlier_count |-> Len(SevereOutliers(acc.outliers)),
              missing_metrics_count |-> Len(acc.missing_metrics),
              outliers |-> acc.outliers,
              within_bounds |-> acc.within_bounds,
              missing_metrics |-> acc.missing_metrics]

\* check_sequence_randomness with an explicitly supplied bounds table.
check_sequence_randomness(metrics, table, confidence_level, vt) ==
    LET acc == ClassifyRows([outliers |-> <<>>, within_bounds |-> <<>>,
                             missing_metrics |-> <<>>, raised |-> "none"],
                            table, 1, metrics, confidence_level, vt)
        total_tested == Len(acc.within_bounds) + Len(acc.outliers)
        randomness_score == RandomnessScore(Len(acc.within_bounds), total_tested)
    IN  IF acc.raised # "none"
        THEN [called |-> TRUE, raised |-> acc.raised]
        ELSE [called |-> TRUE,
              raised |-> "none",
              randomness_score |-> randomness_score,
              assessment |-> Assessment(randomness_score),
              confidence_level |-> confidence_level,
              total_metrics_tested |-> total_tested,
              within_bounds_count |-> Len(acc.within_bounds),
              outlier_count |-> Len(acc.outliers),
              severe_outlier_count |-> Len(SevereOutliers(acc.outliers)),
              missing_metrics_count |-> Len(acc.missing_metrics),
              outliers |-> acc.outliers,
              within_bounds |-> acc.within_bounds,
              missing_metrics |-> acc.missing_metrics]

(***************************************************************************)
(* Inputs.                                                                 *)
(***************************************************************************)
BoundsEntry(metric, mean, std, l95, u95, l99, u99) ==
    [metric |-> metric, expected_mean |-> mean, expected_std |-> std,
     bound_95_lower |-> l95, bound_95_upper |-> u95,
     bound_99_lower |-> l99, bound_99_upper |-> u99,
     interpretation |-> "interpretation"]

\* Every record over the names of S with values of V (a key may be absent).
MetricRecords(S, V) == UNION { [K -> V] : K \in SUBSET S }

\* The record rec with one more key.
WithKey(rec, name, value) ==
    [k \in DOMAIN rec \cup {name} |-> IF k = name THEN value ELSE rec[k]]

\* Every table of at most n rows drawn from E (names may repeat).
BoundsTables(E, n) == UNION { [1..k -> E] : k \in 0..n }

\* Tables of the table specification: two table metrics, a zero or positive
\* std, and 99% bounds that contain the 95% bounds or are contained in them.
TableNames == {"redundancy", "tpi"}

\* A key of the feature record (calculate_transition_features) no table has.
FeatureOnlyName == "step1_trans_0_to_0"

TableEntries ==
    { BoundsEntry(m, 2, std, b[1], b[2], b[3], b[4]) :
        m \in TableNames, std \in {0, 1},
        b \in { <<3, 3, 2, 4>>, <<2, 4, 3, 3>> } }

Init ==
    /\ bounds_table \in BoundsTables(TableEntries, MaxRows)
    /\ \E rec \in MetricRecords(TableNames, 0..MaxVal), extra \in BOOLEAN :
          test_metrics = IF extra THEN WithKey(rec, FeatureOnlyName, 0) ELSE rec
    /\ value_type \in ValueTypes
    /\ results = [l \in ConfidenceLevels |-> NotCalled]
    /\ LibraryIdle

\* One table row with every combination of mean, std and bounds, lower <= upper.
EntryRows ==
    { BoundsEntry("redundancy", mean, std, l95, u95, l99, u99) :
        mean \in {-2, 0, 2, 3, 4}, std \in {0, 1, 2},
        l95 \in {1, 3, 5}, u95 \in {1, 3, 5}, l99 \in {1, 3, 5}, u99 \in {1, 3, 5} }

InitEntry ==
    /\ bounds_table \in { <<e>> : e \in { r \in EntryRows :
                              /\ r.bound_95_lower <= r.bound_95_upper
                              /\ r.bound_99_lower <= r.bound_99_upper } }
    /\ test_metrics \in MetricRecords({"redundancy"}, 0..MaxEntryVal)
    /\ value_type \in ValueTypes
    /\ results = [l \in ConfidenceLevels |-> NotCalled]
    /\ LibraryIdle

\* The table of the 27 required metrics, and the records that have the first
\* k of them inside both bounds, the next j outside the 95% bounds (above both
\* bounds, or below the 95% bound only) and the others missing.
SuiteTable ==
    [i \in 1..Len(get_required_metrics) |->
        BoundsEntry(get_required_metrics[i], 3, 1, 1, 5, 0, 6)]

SuiteRecord(k, j, outside) ==
    [m \in { get_required_metrics[i] : i \in 1..(k + j) } |->
        IF \E i \in 1..k : get_required_metrics[i] = m THEN 3 ELSE outside]

InitSuite ==
    /\ bounds_table = SuiteTable
    /\ \E k \in 0..Len(SuiteTable), j \in 0..Len(SuiteTable), outside \in {0, 9} :
          /\ k + j <= Len(SuiteTable)
          /\ test_metrics = SuiteRecord(k, j, outside)
    /\ value_type \in ValueTypes
    /\ results = [l \in ConfidenceLevels |-> NotCalled]
    /\ LibraryIdle

\* One call check_sequence_randomness(test_metrics, bounds_table, level).
Check(level) ==
    /\ results' = [results EXCEPT ![level] =
                     check_sequence_randomness(test_metrics, bounds_table,
                                               level, value_type)]
    /\ UNCHANGED <<test_metrics, bounds_table, value_type>>
    /\ UNCHANGED library_vars

Next == \E level \in ConfidenceLevels : Check(level)

Spec == Init /\ [][Next]_vars

SpecEntry == InitEntry /\ [][Next]_vars

SpecSuite == InitSuite /\ [][Next]_vars

(***************************************************************************)
(* The bounds file mt_randomness_bounds.csv, looked for beside the script  *)
(* and in the current working directory; each place holds the file, with   *)
(* its table, or does not.                                                 *)
(***************************************************************************)
\* The file loading with an empty table taken when no file is found.
load_bounds_table_or_empty(files) ==
    IF files.script_dir.present
    THEN [raised |-> "none", table |-> files.script_dir.table]
    ELSE IF files.cwd.present
    THEN [raised |-> "none", table |-> files.cwd.table]
    ELSE [raised |-> "none", table |-> <<>>]

\* check_sequence_randomness, lines 33-44: the script directory first, then
\* the working directory, FileNotFoundError when neither has the file.
load_bounds_table(files) ==
    IF files.script_dir.present
    THEN [raised |-> "none", table |-> files.script_dir.table]
    ELSE IF files.cwd.present
    THEN [raised |-> "none", table |-> files.cwd.table]
    ELSE [raised |-> "FileNotFoundError"]

\* check_sequence_randomness called without a bounds table.
check_sequence_randomness_default(metrics, files, confidence_level, vt) ==
    LET loaded == load_bounds_table(files)
    IN  IF loaded.raised # "none"
        THEN [called |-> TRUE, raised |-> loaded.raised]
        ELSE check_sequence_randomness(metrics, loaded.table,
                                       confidence_level, vt)

\* A call get_required_metrics(): the metric column of the file beside the
\* script, the hardcoded list when that file is absent.
get_required_metrics_call(files) ==
    IF files.script_dir.present
    THEN [raised |-> "none",
          value |-> [i \in 1..Len(files.script_dir.table) |->
                        files.script_dir.table[i].metric]]
    ELSE [raised |-> "none", value |-> get_required_metrics]

FileTables == { <<e>> : e \in { r \in TableEntries :
                   r.metric = "redundancy" /\ r.expected_std = 1 } }
FileStates == {Absent} \cup { [present |-> TRUE, table |-> t] : t \in FileTables }

InitFiles ==
    /\ bounds_files \in [script_dir : FileStates, cwd : FileStates]
    /\ test_metrics \in MetricRecords({"redundancy"}, {1, 3})
    /\ value_type \in ValueTypes
    /\ bounds_table = "None"
    /\ results = [l \in ConfidenceLevels |-> NotCalled]
    /\ output = NoOutput
    /\ sequence = [kind |-> "list", items |-> <<>>]
    /\ batch = NoBatch
    /\ random_state = [seed |-> Seed, drawn |-> 0]

\* One call check_sequence_randomness(test_metrics, None, level).
CheckDefault(level) ==
    /\ results' = [results EXCEPT ![level] =
           check_sequence_randomness_default(test_metrics, bounds_files,
                                             level, value_type)]
    /\ UNCHANGED <<test_metrics, bounds_table, value_type>>
    /\ UNCHANGED library_vars

\* One call get_required_metrics().
GetRequiredMetrics ==
    /\ output' = [op |-> "get_required_metrics",
                  result |-> get_required_metrics_call(bounds_files)]
    /\ UNCHANGED <<sequence, batch, random_state, bounds_files>>
    /\ UNCHANGED checker_vars

NextFiles ==
    \/ \E level \in ConfidenceLevels : CheckDefault(level)
    \/ GetRequiredMetrics

SpecFiles == InitFiles /\ [][NextFiles]_vars

(***************************************************************************)
(* The metric library (stat/lib/metrics.py).  A metric value is the exact  *)
(* quotient n/d of two integers, d > 0; two values are the same float when *)
(* the quotients are equal.                                                *)
(***************************************************************************)
Zero == [n |-> 0, d |-> 1]
Quotient(n, d) == IF n = 0 THEN Zero ELSE [n |-> n, d |-> d]
SameValue(a, b) == a.n * b.d = b.n * a.d

RECURSIVE GCD(_, _)
GCD(a, b) == IF b = 0 THEN a ELSE GCD(b, a % b)

\* The sum of two quotients, in lowest terms.
Plus(a, b) ==
    LET n == a.n * b.d + b.n * a.d
        d == a.d * b.d
        g == GCD(Abs(n), d)
    IN  [n |-> n \div g, d |-> d \div g]

\* The n positions range(n) runs through, none for n <= 0.
range(n) == IF n > 0 THEN 1..n ELSE {}

DigitChars == <<"0", "1", "2", "3", "4", "5", "6", "7", "8", "9">>
IsDigit(c) == \E i \in 1..10 : DigitChars[i] = c
IntOfChar(c) == (CHOOSE i \in 1..10 : DigitChars[i] = c) - 1

\* _prepare_sequence: a string is reduced to its digit characters, anything
\* else is returned as it is.
_prepare_sequence(z) ==
    IF z.kind = "str"
    THEN LET digits == SelectSeq(z.items, IsDigit)
         IN  [i \in 1..Len(digits) |-> IntOfChar(digits[i])]
    ELSE z.items

\* The p-th value random.randint(0, base - 1) returns after random.seed(seed):
\* the generator is a fixed stream of the seed, read at the position the
\* module-level state has reached.
Stream(seed, p, base) ==
    LET a == ((p + seed) * 7919) % 46337
        b == (a * a + a) % 46337
    IN  b % base

\* _extract_tp_indices: the indices i (from 1, into the non-zero differences)
\* where the difference changes sign.
_extract_tp_indices(z) ==
    LET all == [i \in range(Len(z) - 1) |-> z[i + 1] - z[i]]
        diff == SelectSeq(all, LAMBDA x : x # 0)
    IN  SelectSeq([i \in range(Len(diff) - 1) |-> i],
                  LAMBDA i : diff[i] * diff[i + 1] < 0)

\* The number of consecutive turning points whose gap is d.
GapCount(tp_indices, d) ==
    Cardinality({i \in 2..Len(tp_indices) :
                    tp_indices[i] - tp_indices[i - 1] = d})

\* One trial of _empirical_expected_pl: m draws from position pos on.
TrialCount(seed, pos, m, d, base) ==
    GapCount(_extract_tp_indices(
                 [j \in 1..m |-> Stream(seed, pos + j - 1, base)]), d)

\* The total of trials lo..hi, trial t drawing from position pos + t * m.
RECURSIVE TrialTotal(_, _, _, _, _, _, _)
TrialTotal(seed, pos, lo, hi, m, d, base) ==
    IF lo > hi THEN 0
    ELSE IF lo = hi THEN TrialCount(seed, pos + lo * m, m, d, base)
    ELSE LET mid == (lo + hi) \div 2
         IN  TrialTotal(seed, pos, lo, mid, m, d, base)
               + TrialTotal(seed, pos, mid + 1, hi, m, d, base)

\* The generator after k more draws.
Advance(rs, k) == [rs EXCEPT !.drawn = @ + k]

\* The number of values a call _pl_d(z, d) draws: none below length d + 3,
\* num_trials * m otherwise.
DrawsOfPl(z, d) ==
    LET m == Len(_prepare_sequence(z))
    IN  IF m < d + 3 THEN 0 ELSE NumTrials * m

\* _empirical_expected_pl, the module-level generator being in state rs at
\* the call: total / num_trials, kept as the pair.
_empirical_expected_pl(m, d, num_trials, base, rs) ==
    [total |-> TrialTotal(rs.seed, rs.drawn, 0, num_trials - 1, m, d, base),
     num_trials |-> num_trials]

\* _pl_d without the return for a sequence shorter than d + 3: the simulation
\* runs for every length.
_pl_d_always_simulating(z, d, base, rs) ==
    LET seq == _prepare_sequence(z)
        m == Len(seq)
        observed == GapCount(_extract_tp_indices(seq), d)
        expected == _empirical_expected_pl(m, d, NumTrials, base, rs)
    IN  [value |-> IF expected.total > 0
                   THEN Quotient(observed * expected.num_trials,
                                 expected.total)
                   ELSE Zero,
         random_state |-> Advance(rs, NumTrials * m)]

\* _pl_d: observed / expected, 0.0 for a sequence shorter than d + 3 (no
\* draw is made then) and when expected is 0.
_pl_d(z, d, base, rs) ==
    LET seq == _prepare_sequence(z)
        m == Len(seq)
        observed == GapCount(_extract_tp_indices(seq), d)
        expected == _empirical_expected_pl(m, d, NumTrials, base, rs)
    IN  IF m < d + 3
        THEN [value |-> Zero, random_state |-> rs]
        ELSE [value |-> IF expected.total > 0
                        THEN Quotient(observed * expected.num_trials,
                                      expected.total)
                        ELSE Zero,
              random_state |-> Advance(rs, DrawsOfPl(z, d))]

\* pl1 .. pl5
pl(d, z, rs) == _pl_d(z, d, Base, rs)

(***************************************************************************)
(* A caller of pl1 .. pl5 on one sequence.                                 *)
(***************************************************************************)
PlSequences == { <<1, 3, 2, 4>>, <<1, 3, 2, 4, 3>> }

InitPl ==
    /\ sequence \in { [kind |-> "list", items |-> z] : z \in PlSequences }
    /\ random_state = [seed |-> Seed, drawn |-> 0]
    /\ output = [op |-> "pl", calls |-> <<>>]
    /\ batch = NoBatch
    /\ bounds_files = NoFiles
    /\ test_metrics = <<>>
    /\ bounds_table = <<>>
    /\ value_type = "float"
    /\ results = [l \in ConfidenceLevels |-> NotCalled]

\* One call pl<d>(sequence).
CallPl(d) ==
    /\ output.op = "pl"
    /\ Len(output.calls) < MaxCalls
    /\ LET r == pl(d, sequence, random_state)
       IN  /\ output' = [output EXCEPT !.calls = Append(@, [d |-> d, value |-> r.value])]
           /\ random_state' = r.random_state
    /\ UNCHANGED <<sequence, batch, bounds_files>>
    /\ UNCHANGED checker_vars

NextPl == \E d \in 1..5 : CallPl(d)

SpecPl == InitPl /\ [][NextPl]_vars

(***************************************************************************)
(* IEEE 754 doubles, for the expressions whose rounding is observable.  A  *)
(* natural number is the sequence of its binary digits, most significant   *)
(* first, without leading zeros; a positive double is m * 2^e with m of    *)
(* exactly 53 digits, 0.0 has no digit.                                    *)
(***************************************************************************)
RECURSIVE BitsOf(_)
BitsOf(n) == IF n = 0 THEN <<>> ELSE Append(BitsOf(n \div 2), n % 2)

Zeros(k) == [i \in range(k) |-> 0]

Trim(b) ==
    IF \A i \in 1..Len(b) : b[i] = 0 THEN <<>>
    ELSE SubSeq(b, CHOOSE i \in 1..Len(b) :
                       b[i] = 1 /\ \A j \in 1..(i - 1) : b[j] = 0,
                Len(b))

\* Digit i of b counted from the least significant one (i = 0), 0 beyond.
BitAt(b, i) == IF i < Len(b) THEN b[Len(b) - i] ELSE 0

BigLess(a, b) ==
    \/ Len(a) < Len(b)
    \/ /\ Len(a) = Len(b)
       /\ \E i \in 1..Len(a) :
             a[i] < b[i] /\ \A j \in 1..(i - 1) : a[j] = b[j]

\* Op applied to the value of v, v being computed once (a local variable
\* holding the result of a call).
With(v, Op(_)) == CHOOSE r \in { Op(x) : x \in {v} } : TRUE

\* The digits lo .. hi of a + b and the carry out of digit hi, carry being
\* the carry into digit lo.
RECURSIVE AddRange(_, _, _, _, _)
AddRange(a, b, lo, hi, carry) ==
    IF lo = hi
    THEN LET total == BitAt(a, lo) + BitAt(b, lo) + carry
         IN  [bits |-> <<total % 2>>, carry |-> total \div 2]
    ELSE LET mid == (lo + hi) \div 2
         IN  With(AddRange(a, b, lo, mid, carry), LAMBDA low :
             With(AddRange(a, b, mid + 1, hi, low.carry), LAMBDA high :
                 [bits |-> high.bits \o low.bits, carry |-> high.carry]))

BigAdd(a, b) ==
    LET n == IF Len(a) > Len(b) THEN Len(a) ELSE Len(b)
    IN  IF n = 0 THEN <<>>
        ELSE With(AddRange(a, b, 0, n - 1, 0), LAMBDA sum :
                 Trim(<<sum.carry>> \o sum.bits))

\* The digits lo .. hi of a - b and the borrow out of digit hi.
RECURSIVE SubRange(_, _, _, _, _)
SubRange(a, b, lo, hi, borrow) ==
    IF lo = hi
    THEN LET total == BitAt(a, lo) - BitAt(b, lo) - borrow
         IN  [bits |-> <<IF total < 0 THEN total + 2 ELSE total>>,
              borrow |-> IF total < 0 THEN 1 ELSE 0]
    ELSE LET mid == (lo + hi) \div 2
         IN  With(SubRange(a, b, lo, mid, borrow), LAMBDA low :
             With(SubRange(a, b, mid + 1, hi, low.borrow), LAMBDA high :
                 [bits |-> high.bits \o low.bits, borrow |-> high.borrow]))

\* a - b for a >= b
BigSub(a, b) ==
    IF a = <<>> THEN <<>>
    ELSE With(SubRange(a, b, 0, Len(a) - 1, 0), LAMBDA difference :
             Trim(difference.bits))

\* a times the number the digits lo .. hi of b (most significant first) make.
RECURSIVE MulRange(_, _, _, _)
MulRange(a, b, lo, hi) ==
    IF lo = hi THEN (IF b[lo] = 1 THEN a ELSE <<>>)
    ELSE LET mid == (lo + hi) \div 2
         IN  With(MulRange(a, b, lo, mid), LAMBDA high :
                 BigAdd(IF high = <<>> THEN <<>> ELSE high \o Zeros(hi - mid),
                        MulRange(a, b, mid + 1, hi)))

BigMul(a, b) == IF a = <<>> \/ b = <<>> THEN <<>> ELSE MulRange(a, b, 1, Len(b))

\* Long division by d of the digits lo .. hi of n (most significant first)
\* after the remainder r: the quotient digits and the new remainder.
RECURSIVE DivRange(_, _, _, _, _)
DivRange(n, d, lo, hi, r) ==
    IF lo = hi
    THEN With(Trim(Append(r, n[lo])), LAMBDA next :
             IF BigLess(next, d) THEN [q |-> <<0>>, r |-> next]
             ELSE [q |-> <<1>>, r |-> BigSub(next, d)])
    ELSE LET mid == (lo + hi) \div 2
         IN  With(DivRange(n, d, lo, mid, r), LAMBDA high :
             With(DivRange(n, d, mid + 1, hi, high.r), LAMBDA low :
                 [q |-> high.q \o low.q, r |-> low.r]))

BigDivMod(n, d) ==
    IF n = <<>> THEN [q |-> <<>>, r |-> <<>>]
    ELSE With(DivRange(n, d, 1, Len(n), <<>>), LAMBDA qr :
             [q |-> Trim(qr.q), r |-> qr.r])

Double0 == [m |-> <<>>, e |-> 0]

\* n * 2^e (more than n when sticky) rounded to the nearest double, ties to
\* the even one.
RoundToDouble(n, e, sticky) ==
    LET len == Len(n)
        kept == SubSeq(n, 1, 53)
        rest == sticky \/ \E i \in 55..len : n[i] = 1
        up == n[54] = 1 /\ (rest \/ kept[53] = 1)
        raised == BigAdd(kept, <<1>>)
    IN  IF len = 0 THEN Double0
        ELSE IF len <= 53 THEN [m |-> n \o Zeros(53 - len), e |-> e - (53 - len)]
        ELSE IF ~up THEN [m |-> kept, e |-> e + (len - 53)]
        ELSE IF Len(raised) = 54
        THEN [m |-> SubSeq(raised, 1, 53), e |-> e + (len - 53) + 1]
        ELSE [m |-> raised, e |-> e + (len - 53)]

\* float(n) for an int n >= 0.
DoubleOfInt(n) == RoundToDouble(BitsOf(n), 0, FALSE)

\* a * b
DoubleTimes(a, b) ==
    IF a.m = <<>> \/ b.m = <<>> THEN Double0
    ELSE RoundToDouble(BigMul(a.m, b.m), a.e + b.e, FALSE)

\* a / b for b # 0.0
DoubleOver(a, b) ==
    IF a.m = <<>> THEN Double0
    ELSE LET qr == BigDivMod(a.m \o Zeros(56), b.m)
         IN  RoundToDouble(qr.q, a.e - b.e - 56, qr.r # <<>>)

\* a < b
DoubleLess(a, b) ==
    IF b.m = <<>> THEN FALSE
    ELSE IF a.m = <<>> THEN TRUE
    ELSE a.e < b.e \/ (a.e = b.e /\ BigLess(a.m, b.m))

(***************************************************************************)
(* The statistical metrics.  Each starts by reducing a string to its       *)
(* digits; a result is [raised, value].                                    *)
(***************************************************************************)
RECURSIVE SeqsUpTo(_, _)
SeqsUpTo(S, n) ==
    IF n = 0 THEN { <<>> }
    ELSE LET shorter == SeqsUpTo(S, n - 1)
         IN  shorter \cup { Append(z, x) : z \in shorter, x \in S }

RECURSIVE Sum(_)
Sum(xs) == IF xs = <<>> THEN 0 ELSE xs[1] + Sum(Tail(xs))

\* Counter(z)[i]
CountOf(z, i) == Cardinality({k \in 1..Len(z) : z[k] = i})

\* f'freq_{i}'
FreqKey(i) == "freq_" \o ToString(i)

\* A dict holding only the digits that occur, as dict(Counter(z)) would.
digit_frequencies_of_seen_digits(z, base) ==
    LET seq == _prepare_sequence(z)
        n == Len(seq)
        seen == {i \in 0..(base - 1) : CountOf(seq, i) > 0}
    IN  [raised |-> "none",
         value |-> [key \in {FreqKey(i) : i \in seen} |->
             LET i == CHOOSE x \in seen : FreqKey(x) = key
             IN  Quotient(CountOf(seq, i), n)]]

\* digit_frequencies: freq_0 .. freq_{base-1}, each Counter(z).get(i, 0) / n,
\* 0.0 for the empty sequence.
digit_frequencies(z, base) ==
    LET seq == _prepare_sequence(z)
        n == Len(seq)
    IN  [raised |-> "none",
         value |-> [key \in {FreqKey(i) : i \in 0..(base - 1)} |->
             LET i == CHOOSE x \in 0..(base - 1) : FreqKey(x) = key
             IN  IF n > 0 THEN Quotient(CountOf(seq, i), n) ELSE Zero]]

Returns(v) == [raised |-> "none", value |-> v]

\* statistics.mean: StatisticsError on no data.
mean(xs) ==
    IF Len(xs) = 0 THEN [raised |-> "StatisticsError"]
    ELSE Returns(Quotient(Sum(xs), Len(xs)))

\* statistics.pstdev in the place of statistics.stdev: the divisor n.
pstdev(xs) ==
    LET n == Len(xs)
        squares == [k \in 1..n |-> xs[k] * xs[k]]
        num == n * Sum(squares) - Sum(xs) * Sum(xs)
    IN  IF n < 2 THEN [raised |-> "StatisticsError"]
        ELSE IF num = 0 THEN Returns(Zero)
        ELSE Returns([kind |-> "sqrt", n |-> num, d |-> n * n])

\* statistics.stdev: the square root of the sample variance, kept as the
\* variance under the root; StatisticsError on fewer than two data points.
stdev(xs) ==
    LET n == Len(xs)
        squares == [k \in 1..n |-> xs[k] * xs[k]]
        num == n * Sum(squares) - Sum(xs) * Sum(xs)
    IN  IF n < 2 THEN [raised |-> "StatisticsError"]
        ELSE IF num = 0 THEN Returns(Zero)
        ELSE Returns([kind |-> "sqrt", n |-> num, d |-> n * (n - 1)])

\* {'mean': mean(xs), 'std': stdev(xs) if len(xs) > 1 else 0.0}
MeanAndStd(xs) ==
    LET m == mean(xs)
        sd == IF Len(xs) > 1 THEN stdev(xs) ELSE Returns(Zero)
    IN  IF m.raised # "none" THEN [raised |-> m.raised]
        ELSE IF sd.raised # "none" THEN [raised |-> sd.raised]
        ELSE [raised |-> "none", mean |-> m.value, std |-> sd.value]

\* redundancy with every position counted as a symbol of its own.
redundancy_of_positions(z, base) ==
    LET seq == _prepare_sequence(z)
        n == Len(seq)
    IN  IF n = 0 THEN Returns(Zero)
        ELSE IF base = 1 THEN [raised |-> "ZeroDivisionError"]
        ELSE Returns([kind |-> "redundancy",
                      counts |-> [k \in 1..n |-> 1],
                      n |-> n,
                      base |-> base])

\* redundancy: 1 - entropy / log2(base), kept as the symbol counts the entropy
\* is computed from; 0.0 for the empty sequence.
redundancy(z, base) ==
    LET seq == _prepare_sequence(z)
        n == Len(seq)
        symbols == {seq[k] : k \in 1..n}
    IN  IF n = 0 THEN Returns(Zero)
        ELSE IF base = 1 THEN [raised |-> "ZeroDivisionError"]
        ELSE Returns([kind |-> "redundancy",
                      counts |-> [x \in symbols |-> CountOf(seq, x)],
                      n |-> n,
                      base |-> base])

\* The steps of start i with res.append(j) in the place of res.append(j + 1).
StepsToCollectLessOne(seq, i, base) ==
    LET complete == {j \in 1..(Len(seq) - i + 1) :
                        \A x \in 0..(base - 1) :
                            \E k \in i..(i + j - 1) : seq[k] = x}
    IN  IF complete = {} THEN 0
        ELSE (CHOOSE j \in complete : \A other \in complete : j <= other) - 1

\* The steps start i needs to have seen every symbol of range(base), 0 when
\* it never has.
StepsToCollect(seq, i, base) ==
    LET complete == {j \in 1..(Len(seq) - i + 1) :
                        \A x \in 0..(base - 1) :
                            \E k \in i..(i + j - 1) : seq[k] = x}
    IN  IF complete = {} THEN 0
        ELSE CHOOSE j \in complete : \A other \in complete : j <= other

\* coupon with the default of 0.0 when no start completes.
coupon_zero_default(z, base) ==
    LET seq == _prepare_sequence(z)
        all == [i \in 1..Len(seq) |-> StepsToCollect(seq, i, base)]
        res == SelectSeq(all, LAMBDA j : j > 0)
    IN  IF res = <<>>
        THEN [raised |-> "none", mean |-> Zero, std |-> Zero]
        ELSE MeanAndStd(res)

\* coupon: mean and std of the steps of the starts that complete; len(z) + 1
\* for both when none does.
coupon(z, base) ==
    LET seq == _prepare_sequence(z)
        all == [i \in 1..Len(seq) |-> StepsToCollect(seq, i, base)]
        res == SelectSeq(all, LAMBDA j : j > 0)
    IN  IF res = <<>>
        THEN [raised |-> "none",
              mean |-> [n |-> Len(seq) + 1, d |-> 1],
              std |-> [n |-> Len(seq) + 1, d |-> 1]]
        ELSE MeanAndStd(res)

\* The gaps between successive positions of the symbols 0 .. i, symbol by
\* symbol.
RECURSIVE Gaps(_, _)
Gaps(seq, i) ==
    IF i < 0 THEN <<>>
    ELSE LET indices == SelectSeq([k \in 1..Len(seq) |-> k],
                                  LAMBDA k : seq[k] = i)
         IN  Gaps(seq, i - 1) \o
                 [g \in range(Len(indices) - 1) |-> indices[g + 1] - indices[g]]

\* repetition_gap: mean and std of the gaps, 0.0 for both without a gap.
repetition_gap(z, base) ==
    LET seq == _prepare_sequence(z)
        gaps == Gaps(seq, base - 1)
    IN  IF gaps = <<>>
        THEN [raised |-> "none", mean |-> Zero, std |-> Zero]
        ELSE MeanAndStd(gaps)

\* adjacent: the share of adjacent pairs that differ by exactly 1.
adjacent(z, base) ==
    LET seq == _prepare_sequence(z)
        n == Len(seq)
        up == Cardinality({k \in 1..(n - 1) : seq[k + 1] = seq[k] + 1})
        down == Cardinality({k \in 1..(n - 1) : seq[k + 1] = seq[k] - 1})
    IN  IF n < 2 THEN Returns(Zero)
        ELSE Returns(Quotient(up + down, n - 1))

\* tpi, the difference list without its zeros, zeros kept instead.
tpi_diff_keeping_ties(seq) ==
    [i \in range(Len(seq) - 1) |-> seq[i + 1] - seq[i]]

\* tpi, the difference list without its zeros.
tpi_diff(seq) ==
    SelectSeq([i \in range(Len(seq) - 1) |-> seq[i + 1] - seq[i]],
              LAMBDA d : d # 0)

\* tpi, tp: the neighbours of the difference list of opposite sign.
tpi_tp(seq) ==
    LET diff == tpi_diff(seq)
    IN  Cardinality({i \in 1..(Len(diff) - 1) : diff[i] * diff[i + 1] < 0})

\* tpi: turning points over (2 / 3) * (m - 2), as the quotient it stands for.
tpi(z, base) ==
    LET seq == _prepare_sequence(z)
        m == Len(seq)
        tp == tpi_tp(seq)
    IN  IF m < 3 THEN Returns(Zero)
        ELSE Returns(Quotient(3 * tp, 2 * (m - 2)))

\* tpi: the double (2 / 3) evaluates to.
TwoThirds == DoubleOver(DoubleOfInt(2), DoubleOfInt(3))

\* tpi: the double tp / expected_tp evaluates to, expected_tp being the double
\* of (2 / 3) * (m - 2).
tp_over_expected_tp(tp, m) ==
    With(DoubleTimes(TwoThirds, DoubleOfInt(m - 2)), LAMBDA expected_tp :
        IF DoubleLess(Double0, expected_tp)
        THEN DoubleOver(DoubleOfInt(tp), expected_tp)
        ELSE Double0)

\* The doubles of tpi by length and number of turning points, each computed
\* once.
TpiDoubles ==
    [m \in 3..MaxTpiLen |-> [tp \in 0..m |-> tp_over_expected_tp(tp, m)]]

\* tpi: the double it returns, for a sequence of at most MaxTpiLen entries.
tpi_float(z, base) ==
    LET seq == _prepare_sequence(z)
        m == Len(seq)
    IN  IF m < 3 THEN Double0 ELSE TpiDoubles[m][tpi_tp(seq)]

\* rp: 1 - nrs / (m - 1), nrs the number of bigrams that occur once.
rp(z, base) ==
    LET seq == _prepare_sequence(z)
        m == Len(seq)
        bigrams == [k \in range(m - 1) |-> <<seq[k], seq[k + 1]>>]
        nrs == Cardinality({b \in {bigrams[k] : k \in 1..(m - 1)} :
                   Cardinality({k \in 1..(m - 1) : bigrams[k] = b}) = 1})
    IN  IF m < 2 THEN Returns(Zero)
        ELSE Returns(Quotient((m - 1) - nrs, m - 1))

\* autocorr_lag1: numerator / denominator about the mean total / n, both
\* scaled by n * n.
autocorr_lag1(z, base) ==
    LET seq == _prepare_sequence(z)
        n == Len(seq)
        total == Sum(seq)
        numerator == Sum([k \in range(n - 1) |->
                            (n * seq[k + 1] - total) * (n * seq[k] - total)])
        denominator == Sum([k \in 1..n |->
                            (n * seq[k] - total) * (n * seq[k] - total)])
    IN  IF n < 2 THEN Returns(Zero)
        ELSE IF denominator # 0 THEN Returns(Quotient(numerator, denominator))
        ELSE Returns(Zero)

\* adjacent_diff_stats: mean and std of |z[i+1] - z[i]|.
adjacent_diff_stats(z, base) ==
    LET seq == _prepare_sequence(z)
        diffs == [k \in range(Len(seq) - 1) |-> Abs(seq[k + 1] - seq[k])]
    IN  IF Len(seq) < 2
        THEN [raised |-> "none", mean |-> Zero, std |-> Zero]
        ELSE MeanAndStd(diffs)

\* max_min_ratio with the counts of all of range(base), the symbols that do
\* not occur included.
max_min_ratio_over_range(z, base) ==
    LET seq == _prepare_sequence(z)
        counts == {CountOf(seq, i) : i \in 0..(base - 1)}
        max_f == CHOOSE c \in counts : \A other \in counts : c >= other
        min_f == CHOOSE c \in counts : \A other \in counts : c <= other
    IN  IF Len(seq) = 0 THEN Returns(Zero)
        ELSE IF min_f > 0 THEN Returns(Quotient(max_f, min_f))
        ELSE Returns([kind |-> "inf"])

\* max_min_ratio: the largest count over the smallest, 0.0 for no symbol.
max_min_ratio(z, base) ==
    LET seq == _prepare_sequence(z)
        counts == {CountOf(seq, seq[k]) : k \in 1..Len(seq)}
        max_f == CHOOSE c \in counts : \A other \in counts : c >= other
        min_f == CHOOSE c \in counts : \A other \in counts : c <= other
    IN  IF counts = {} THEN Returns(Zero)
        ELSE IF min_f > 0 THEN Returns(Quotient(max_f, min_f))
        ELSE Returns([kind |-> "inf"])

(***************************************************************************)
(* The aggregator (calculate_features.py).                                 *)
(***************************************************************************)
\* [int(x) for x in sequence]: the elements of a list as they are, the
\* characters of a string converted one by one, ValueError at a character
\* that is not a digit.
IntList(z) ==
    IF z.kind = "str"
    THEN IF \E k \in 1..Len(z.items) : ~IsDigit(z.items[k])
         THEN [raised |-> "ValueError"]
         ELSE Returns([k \in 1..Len(z.items) |-> IntOfChar(z.items[k])])
    ELSE Returns(z.items)

\* The first error among the results of the calls, in call order.
FirstRaised(calls) ==
    LET failed == {k \in 1..Len(calls) : calls[k].raised # "none"}
    IN  IF failed = {} THEN "none"
        ELSE calls[CHOOSE k \in failed : \A other \in failed : k <= other].raised

\* The number of values pl1 .. pl5 draw in calculate_statistical_metrics(z):
\* none when the conversion raises.
DrawsOfMetrics(z) ==
    LET converted == IntList(z)
    IN  IF converted.raised # "none" THEN 0
        ELSE Sum([d \in 1..5 |->
                    DrawsOfPl([kind |-> "list", items |-> converted.value], d)])

\* calculate_statistical_metrics, the generator being in state rs at the
\* call: the 17 metric values and the 10 digit frequencies under their
\* names, pl1 .. pl5 drawing from the generator one after the other.
calculate_statistical_metrics(z, rs) ==
    LET converted == IntList(z)
        seq == [kind |-> "list", items |-> converted.value]
        r == redundancy(seq, Base)
        coupon_stats == coupon(seq, Base)
        rep_gap_stats == repetition_gap(seq, Base)
        adj == adjacent(seq, Base)
        t == tpi(seq, Base)
        rs1 == Advance(rs, DrawsOfPl(seq, 1))
        rs2 == Advance(rs1, DrawsOfPl(seq, 2))
        rs3 == Advance(rs2, DrawsOfPl(seq, 3))
        rs4 == Advance(rs3, DrawsOfPl(seq, 4))
        p1 == pl(1, seq, rs)
        p2 == pl(2, seq, rs1)
        p3 == pl(3, seq, rs2)
        p4 == pl(4, seq, rs3)
        p5 == pl(5, seq, rs4)
        repeat == rp(seq, Base)
        autocorr == autocorr_lag1(seq, Base)
        adj_diff_stats == adjacent_diff_stats(seq, Base)
        ratio == max_min_ratio(seq, Base)
        freq_stats == digit_frequencies(seq, Base)
        raised == FirstRaised(<<r, coupon_stats, rep_gap_stats, adj, t, repeat,
                                autocorr, adj_diff_stats, ratio, freq_stats>>)
    IN  IF converted.raised # "none" THEN [raised |-> converted.raised]
        ELSE IF raised # "none" THEN [raised |-> raised]
        ELSE [raised |-> "none",
              metrics |->
                  [key \in {FreqKey(i) : i \in 0..9} |-> freq_stats.value[key]]
                  @@ ("max_min_ratio" :> ratio.value)
                  @@ ("adjacent_diff_std" :> adj_diff_stats.std)
                  @@ ("adjacent_diff_mean" :> adj_diff_stats.mean)
                  @@ ("autocorr_lag1" :> autocorr.value)
                  @@ ("rp" :> repeat.value)
                  @@ ("pl5" :> p5.value)
                  @@ ("pl4" :> p4.value)
                  @@ ("pl3" :> p3.value)
                  @@ ("pl2" :> p2.value)
                  @@ ("pl1" :> p1.value)
                  @@ ("tpi" :> t.value)
                  @@ ("adjacent" :> adj.value)
                  @@ ("repetition_gap_std" :> rep_gap_stats.std)
                  @@ ("repetition_gap_mean" :> rep_gap_stats.mean)
                  @@ ("coupon_std" :> coupon_stats.std)
                  @@ ("coupon_mean" :> coupon_stats.mean)
                  @@ ("redundancy" :> r.value)]

(***************************************************************************)
(* A caller of the metric functions on one sequence of digits.             *)
(***************************************************************************)
MetricSymbols == {0, 1, 2, 9}
AllDigits == <<0, 1, 2, 3, 4, 5, 6, 7, 8, 9>>
MetricSequences == SeqsUpTo(MetricSymbols, MaxLen) \cup {AllDigits}

InitMetrics ==
    /\ sequence \in { [kind |-> "list", items |-> z] : z \in MetricSequences }
    /\ output = NoOutput
    /\ batch = NoBatch
    /\ random_state = [seed |-> Seed, drawn |-> 0]
    /\ bounds_files = NoFiles
    /\ test_metrics = <<>>
    /\ bounds_table = <<>>
    /\ value_type = "float"
    /\ results = [l \in ConfidenceLevels |-> NotCalled]

\* The call digit_frequencies(sequence, base).
DigitFrequencies(base) ==
    /\ output = NoOutput
    /\ output' = [op |-> "digit_frequencies", base |-> base,
                  result |-> digit_frequencies(sequence, base)]
    /\ UNCHANGED <<sequence, batch, random_state, bounds_files>>
    /\ UNCHANGED checker_vars

\* The call calculate_statistical_metrics(sequence).
CalculateStatisticalMetrics ==
    /\ output = NoOutput
    /\ output' = [op |-> "calculate_statistical_metrics",
                  result |-> calculate_statistical_metrics(sequence, random_state)]
    /\ random_state' = Advance(random_state, DrawsOfMetrics(sequence))
    /\ UNCHANGED <<sequence, batch, bounds_files>>
    /\ UNCHANGED checker_vars

NextMetrics ==
    \/ \E base \in {MatrixBase, Base} : DigitFrequencies(base)
    \/ CalculateStatisticalMetrics

SpecMetrics == InitMetrics /\ [][NextMetrics]_vars

(***************************************************************************)
(* A caller of one metric function on a sequence over a small alphabet,    *)
(* long enough for runs that collect every symbol and for ties between     *)
(* turning points.                                                         *)
(***************************************************************************)
LongSequences ==
    SeqsUpTo(0..(MatrixBase - 1), MaxLongLen) \cup {AllDigits, AllDigits \o AllDigits}

InitLong ==
    /\ sequence \in { [kind |-> "list", items |-> z] : z \in LongSequences }
    /\ output = NoOutput
    /\ batch = NoBatch
    /\ random_state = [seed |-> Seed, drawn |-> 0]
    /\ bounds_files = NoFiles
    /\ test_metrics = <<>>
    /\ bounds_table = <<>>
    /\ value_type = "float"
    /\ results = [l \in ConfidenceLevels |-> NotCalled]

\* The call redundancy(sequence, base).
Redundancy(base) ==
    /\ output = NoOutput
    /\ output' = [op |-> "redundancy", base |-> base,
                  result |-> redundancy(sequence, base)]
    /\ UNCHANGED <<sequence, batch, random_state, bounds_files>>
    /\ UNCHANGED checker_vars

\* The call max_min_ratio(sequence, base).
MaxMinRatio(base) ==
    /\ output = NoOutput
    /\ output' = [op |-> "max_min_ratio", base |-> base,
                  result |-> max_min_ratio(sequence, base)]
    /\ UNCHANGED <<sequence, batch, random_state, bounds_files>>
    /\ UNCHANGED checker_vars

\* The call coupon(sequence, base).
Coupon(base) ==
    /\ output = NoOutput
    /\ output' = [op |-> "coupon", base |-> base,
                  result |-> coupon(sequence, base)]
    /\ UNCHANGED <<sequence, batch, random_state, bounds_files>>
    /\ UNCHANGED checker_vars

NextLong ==
    \/ \E base \in {MatrixBase, Base} : Redundancy(base)
    \/ \E base \in {MatrixBase, Base} : MaxMinRatio(base)
    \/ \E base \in {MatrixBase, Base} : Coupon(base)

SpecLong == InitLong /\ [][NextLong]_vars

(***************************************************************************)
(* A caller of pl1 .. pl5 that passes the base: one call right after the   *)
(* import, on a sequence of two symbols.                                   *)
(***************************************************************************)
PhaseBases == {2, Base}

PhaseSequences == SeqsUpTo({0, 1}, MaxLongLen)

InitPhase ==
    /\ sequence \in { [kind |-> "list", items |-> z] : z \in PhaseSequences }
    /\ random_state = [seed |-> Seed, drawn |-> 0]
    /\ output = NoOutput
    /\ batch = NoBatch
    /\ bounds_files = NoFiles
    /\ test_metrics = <<>>
    /\ bounds_table = <<>>
    /\ value_type = "float"
    /\ results = [l \in ConfidenceLevels |-> NotCalled]

\* The call pl<d>(sequence, base).
CallPlBase(d, base) ==
    /\ output = NoOutput
    /\ LET r == _pl_d(sequence, d, base, random_state)
       IN  /\ output' = [op |-> "pl_d", d |-> d, base |-> base, value |-> r.value]
           /\ random_state' = r.random_state
    /\ UNCHANGED <<sequence, batch, bounds_files>>
    /\ UNCHANGED checker_vars

NextPhase == \E d \in 1..5 : \E base \in PhaseBases : CallPlBase(d, base)

SpecPhase == InitPhase /\ [][NextPhase]_vars

(***************************************************************************)
(* A caller of tpi on a sequence long enough for the rounding of its       *)
(* quotient to show.                                                       *)
(***************************************************************************)
TpiSymbols == {0, 1, 2}

TpiSequences == SeqsUpTo(TpiSymbols, MaxTpiLen)

InitTpi ==
    /\ sequence \in { [kind |-> "list", items |-> z] : z \in TpiSequences }
    /\ output = NoOutput
    /\ batch = NoBatch
    /\ random_state = [seed |-> Seed, drawn |-> 0]
    /\ bounds_files = NoFiles
    /\ test_metrics = <<>>
    /\ bounds_table = <<>>
    /\ value_type = "float"
    /\ results = [l \in ConfidenceLevels |-> NotCalled]

\* The call tpi(sequence): the quotient the result stands for and the double
\* returned.
Tpi ==
    /\ output = NoOutput
    /\ output' = [op |-> "tpi", result |-> tpi(sequence, Base),
                  float |-> tpi_float(sequence, Base)]
    /\ UNCHANGED <<sequence, batch, random_state, bounds_files>>
    /\ UNCHANGED checker_vars

NextTpi == Tpi

SpecTpi == InitTpi /\ [][NextTpi]_vars

(***************************************************************************)
(* Transition probabilities (trans/lib/transition_probs.py).               *)
(***************************************************************************)
\* What the cells of a row of the array np.divide allocates hold before they
\* are written: the bytes of a fresh page, of NaNs, or of numbers an earlier
\* array left there.
Stale == [n |-> 5, d |-> 2]
LeftoverCells == {"zero", "nan", "stale"}

\* np.nan_to_num on one cell: NaN becomes 0.0, a number stays.
nan_to_num(cell) == IF cell = "stale" THEN Stale ELSE Zero

\* numpy indexing: a negative index counts from the end.
ArrayIndex(x, base) == IF x < 0 THEN x + base ELSE x
IndexInRange(x, base) == x >= 0 - base /\ x < base

\* transitions[i, j] after a counting loop that stops one pair early.
TransitionCountWithoutLast(z, step, base, i, j) ==
    Cardinality({k \in 1..(Len(z) - step - 1) :
                    /\ ArrayIndex(z[k], base) = i
                    /\ ArrayIndex(z[k + step], base) = j})

\* transitions[i, j] after the counting loop.
TransitionCount(z, step, base, i, j) ==
    Cardinality({k \in 1..(Len(z) - step) :
                    /\ ArrayIndex(z[k], base) = i
                    /\ ArrayIndex(z[k + step], base) = j})

RowSumCount(z, step, base, i) ==
    Cardinality({k \in 1..(Len(z) - step) : ArrayIndex(z[k], base) = i})

\* calculate_transition_matrix on a list of integers: the counts divided by
\* the row sums where the row sum is not 0; np.divide is given no out array,
\* so the cells of the other rows keep what the allocation held (leftover),
\* passed through nan_to_num.
calculate_transition_matrix(z, step, base, leftover) ==
    IF \E k \in 1..(Len(z) - step) :
           ~IndexInRange(z[k], base) \/ ~IndexInRange(z[k + step], base)
    THEN [raised |-> "IndexError"]
    ELSE [raised |-> "none",
          matrix |-> [i \in 0..(base - 1) |-> [j \in 0..(base - 1) |->
              IF RowSumCount(z, step, base, i) # 0
              THEN Quotient(TransitionCount(z, step, base, i, j),
                            RowSumCount(z, step, base, i))
              ELSE nan_to_num(leftover[i])]]]

InitTrans ==
    /\ sequence \in { [kind |-> "list", items |-> z] :
                         z \in SeqsUpTo(0..(MatrixBase - 1), MaxLen) }
    /\ output = NoOutput
    /\ batch = NoBatch
    /\ random_state = [seed |-> Seed, drawn |-> 0]
    /\ bounds_files = NoFiles
    /\ test_metrics = <<>>
    /\ bounds_table = <<>>
    /\ value_type = "float"
    /\ results = [l \in ConfidenceLevels |-> NotCalled]

\* The call calculate_transition_matrix(sequence, step, MatrixBase).
TransitionMatrix(step, leftover) ==
    /\ output = NoOutput
    /\ output' = [op |-> "calculate_transition_matrix",
                  step |-> step,
                  base |-> MatrixBase,
                  result |-> calculate_transition_matrix(sequence.items, step,
                                                         MatrixBase, leftover)]
    /\ UNCHANGED <<sequence, batch, random_state, bounds_files>>
    /\ UNCHANGED checker_vars

NextTrans ==
    \E step \in 1..MaxStep :
        \E leftover \in [0..(MatrixBase - 1) -> LeftoverCells] :
            TransitionMatrix(step, leftover)

SpecTrans == InitTrans /\ [][NextTrans]_vars

(***************************************************************************)
(* The feature record (calculate_features.py): the 27 metrics and the      *)
(* transition probabilities of steps 1 .. 5 under one flat set of names.   *)
(***************************************************************************)
\* A transition feature name without the step in it.
FeatureNameWithoutStep(step, from_digit, to_digit) ==
    "trans_" \o ToString(from_digit) \o "_to_" \o ToString(to_digit)

\* f'step{step}_trans_{from_digit}_to_{to_digit}'
FeatureName(step, from_digit, to_digit) ==
    "step" \o ToString(step) \o "_trans_" \o ToString(from_digit)
        \o "_to_" \o ToString(to_digit)

TransitionTriples == (1..MaxStep) \X (0..9) \X (0..9)
TransitionKeys == {FeatureName(t[1], t[2], t[3]) : t \in TransitionTriples}

\* The assignments transition_features[feature_name] = step_matrix[from, to]
\* numbered lo .. hi in the order of the three loops (step, from_digit,
\* to_digit), a later one replacing an earlier one under the same name.
RECURSIVE AssignedFeatures(_, _, _)
AssignedFeatures(matrices, lo, hi) ==
    IF lo = hi
    THEN LET step == (lo \div 100) + 1
             from_digit == (lo % 100) \div 10
             to_digit == lo % 10
         IN  FeatureName(step, from_digit, to_digit)
                 :> matrices[step].matrix[from_digit][to_digit]
    ELSE LET mid == (lo + hi) \div 2
         IN  AssignedFeatures(matrices, mid + 1, hi)
                 @@ AssignedFeatures(matrices, lo, mid)

\* calculate_transition_features: step_matrix[from, to] of the matrices of
\* steps 1 .. max_step (base 10) under the feature names.
calculate_transition_features(z, max_step, leftover) ==
    LET converted == IntList(z)
        matrices == [step \in 1..max_step |->
                        calculate_transition_matrix(converted.value, step,
                                                    Base, leftover)]
        raised == FirstRaised(matrices)
    IN  IF converted.raised # "none" THEN [raised |-> converted.raised]
        ELSE IF raised # "none" THEN [raised |-> raised]
        ELSE Returns(AssignedFeatures(matrices, 0, max_step * 100 - 1))

\* calculate_all_features: {**stat_features, **trans_features} as the one
\* row of a DataFrame.
calculate_all_features(z, rs, leftover) ==
    With(calculate_statistical_metrics(z, rs), LAMBDA stat_features :
        IF stat_features.raised # "none"
        THEN [raised |-> stat_features.raised]
        ELSE With(calculate_transition_features(z, MaxStep, leftover),
                  LAMBDA trans_features :
            IF trans_features.raised # "none"
            THEN [raised |-> trans_features.raised]
            ELSE [raised |-> "none",
                  features |-> trans_features.value @@ stat_features.metrics]))

FeatureSymbols == {0, 9, 12, -1}
FeatureChars == {"1", "9", "a"}
\* A sequence with pairs at every step 1 .. 5.
SixDigits == <<0, 9, 0, 0, 9, 9>>
FeatureInputs ==
    { [kind |-> "list", items |-> z] :
          z \in SeqsUpTo(FeatureSymbols, MaxLen) \cup {SixDigits} }
        \cup { [kind |-> "str", items |-> z] : z \in SeqsUpTo(FeatureChars, MaxLen) }

InitFeatures ==
    /\ sequence \in FeatureInputs
    /\ output = NoOutput
    /\ batch = NoBatch
    /\ random_state = [seed |-> Seed, drawn |-> 0]
    /\ bounds_files = NoFiles
    /\ test_metrics = <<>>
    /\ bounds_table = <<>>
    /\ value_type = "float"
    /\ results = [l \in ConfidenceLevels |-> NotCalled]

\* The call calculate_all_features(sequence); every row np.divide leaves
\* unwritten in this call holds the same kind of bytes, cell.
CalculateAllFeatures(cell) ==
    /\ output = NoOutput
    /\ output' = [op |-> "calculate_all_features",
                  leftover |-> cell,
                  result |-> calculate_all_features(sequence, random_state,
                                 [i \in 0..(Base - 1) |-> cell])]
    /\ random_state' = Advance(random_state, DrawsOfMetrics(sequence))
    /\ UNCHANGED <<sequence, batch, bounds_files>>
    /\ UNCHANGED checker_vars

NextFeatures == \E cell \in LeftoverCells : CalculateAllFeatures(cell)

SpecFeatures == InitFeatures /\ [][NextFeatures]_vars

(***************************************************************************)
(* calculate_features_for_sequences: one row per sequence of a batch.      *)
(***************************************************************************)
\* The generator when the loop reaches sequence i: the draws of the
\* sequences before it have been made.
RECURSIVE DrawsBefore(_, _)
DrawsBefore(sequences, i) ==
    IF i <= 1 THEN 0
    ELSE DrawsBefore(sequences, i - 1) + DrawsOfMetrics(sequences[i - 1])

\* calculate_features_for_sequences: the identifiers default to the
\* positions 0, 1, ...; row i is calculate_all_features(sequences[i]) with
\* sequence_id = sequence_ids[i]; an error of either ends the call, and
\* pd.concat raises ValueError on no rows.
calculate_features_for_sequences(sequences, sequence_ids, rs, leftover) ==
    LET ids == IF sequence_ids.given THEN sequence_ids.ids
               ELSE [k \in range(Len(sequences)) |-> k - 1]
    IN  With([i \in 1..Len(sequences) |->
                 calculate_all_features(sequences[i],
                                        Advance(rs, DrawsBefore(sequences, i)),
                                        leftover)],
             LAMBDA all_features :
        LET failed == {i \in 1..Len(sequences) :
                          all_features[i].raised # "none" \/ i > Len(ids)}
            first == CHOOSE i \in failed : \A other \in failed : i <= other
        IN  IF failed # {}
            THEN [raised |-> IF all_features[first].raised # "none"
                             THEN all_features[first].raised ELSE "IndexError",
                  random_state |-> Advance(rs, DrawsBefore(sequences, first + 1))]
            ELSE IF Len(sequences) = 0
            THEN [raised |-> "ValueError", random_state |-> rs]
            ELSE [raised |-> "none",
                  random_state |-> Advance(rs, DrawsBefore(sequences,
                                                           Len(sequences) + 1)),
                  rows |-> [i \in 1..Len(sequences) |->
                               [sequence_id |-> ids[i],
                                features |-> all_features[i].features]]])

BatchSequences ==
    { [kind |-> "list", items |-> z] : z \in { <<1, 3, 2, 4>>, <<0>> } }

GivenIds(n) == [given |-> TRUE, ids |-> [k \in 1..n |-> "id" \o ToString(k)]]

InitBatch ==
    /\ batch \in { [sequences |-> b, sequence_ids |-> ids] :
                     b \in SeqsUpTo(BatchSequences, MaxBatch),
                     ids \in {NoIds} \cup {GivenIds(n) : n \in 0..MaxBatch} }
    /\ sequence = [kind |-> "list", items |-> <<>>]
    /\ output = NoOutput
    /\ random_state = [seed |-> Seed, drawn |-> 0]
    /\ bounds_files = NoFiles
    /\ test_metrics = <<>>
    /\ bounds_table = <<>>
    /\ value_type = "float"
    /\ results = [l \in ConfidenceLevels |-> NotCalled]

\* The call calculate_features_for_sequences(batch.sequences,
\* batch.sequence_ids); cell as in CalculateAllFeatures.
CalculateFeaturesForSequences(cell) ==
    /\ output = NoOutput
    /\ \E r \in { calculate_features_for_sequences(batch.sequences,
                       batch.sequence_ids, random_state,
                       [i \in 0..(Base - 1) |-> cell]) } :
           /\ output' = [op |-> "calculate_features_for_sequences",
                         leftover |-> cell,
                         result |-> IF r.raised = "none"
                                    THEN [raised |-> "none", rows |-> r.rows]
                                    ELSE [raised |-> r.raised]]
           /\ random_state' = r.random_state
    /\ UNCHANGED <<sequence, batch, bounds_files>>
    /\ UNCHANGED checker_vars

NextBatch == \E cell \in LeftoverCells : CalculateFeaturesForSequences(cell)

SpecBatch == InitBatch /\ [][NextBatch]_vars

(***************************************************************************)
(* A caller that makes several calls, with the same or another record, and  *)
(* keeps what each call was given and what it returned.                    *)
(***************************************************************************)
CallRecords == MetricRecords({"redundancy"}, {1, 3})

InitCalls ==
    /\ bounds_table \in { <<e>> : e \in { r \in TableEntries :
                              r.metric = "redundancy" /\ r.bound_95_lower = 3 } }
    /\ test_metrics \in CallRecords
    /\ value_type \in ValueTypes
    /\ results = [l \in ConfidenceLevels |-> NotCalled]
    /\ sequence = [kind |-> "list", items |-> <<>>]
    /\ batch = NoBatch
    /\ random_state = [seed |-> Seed, drawn |-> 0]
    /\ bounds_files = NoFiles
    /\ output = [op |-> "check_sequence_randomness", calls |-> <<>>]

\* One call check_sequence_randomness(test_metrics, bounds_table, level), the
\* caller keeping the arguments and the result.
CheckLogged(level) ==
    /\ Len(output.calls) < MaxCalls
    /\ LET result == check_sequence_randomness(test_metrics, bounds_table,
                                               level, value_type)
       IN  /\ results' = [results EXCEPT ![level] = result]
           /\ output' = [output EXCEPT !.calls =
                           Append(@, [test_metrics |-> test_metrics,
                                      bounds_table |-> bounds_table,
                                      confidence_level |-> level,
                                      result |-> result])]
    /\ UNCHANGED <<test_metrics, bounds_table, value_type>>
    /\ UNCHANGED <<sequence, batch, random_state, bounds_files>>

\* The caller goes on with another record.
NewRecord(rec) ==
    /\ rec # test_metrics
    /\ test_metrics' = rec
    /\ UNCHANGED <<bounds_table, value_type, results>>
    /\ UNCHANGED library_vars

NextCalls ==
    \/ \E level \in ConfidenceLevels : CheckLogged(level)
    \/ \E rec \in CallRecords : NewRecord(rec)

SpecCalls == InitCalls /\ [][NextCalls]_vars

(***************************************************************************)
(* The deviation reporter (local_server.py).  The server runs in the       *)
(* directory of local_server.py, so './checker/mt_randomness_bounds.csv'   *)
(* is the file beside randomness_checker.py.  The explanation texts and    *)
(* the improvement tip of an outlier are fixed strings chosen by the       *)
(* metric name; they are not kept.  A range value is None or a number      *)
(* n / 100.                                                                *)
(***************************************************************************)
NoneValue == [kind |-> "None"]
Number(n) == [kind |-> "number", n |-> n, d |-> 100]

\* load_bounds_table of local_server.py: the table of the file, None when the
\* file is not found.
server_load_bounds_table(files) ==
    IF files.script_dir.present
    THEN [kind |-> "DataFrame", table |-> files.script_dir.table]
    ELSE NoneValue

non_normal_metrics == {"pl3", "pl4", "pl5", "max_min_ratio"}

\* calculate_statistical_range at confidence_level = 0.95 (z_score = 1.96):
\* the first row of the metric, mean -/+ 1.96 * std, or the mean alone for a
\* metric of non_normal_metrics.
calculate_statistical_range(metric_name, bounds_df) ==
    IF bounds_df.kind = "None"
    THEN [lower |-> NoneValue, upper |-> NoneValue, mean |-> NoneValue]
    ELSE LET metric_row == SelectSeq(bounds_df.table,
                                     LAMBDA row : row.metric = metric_name)
             row == metric_row[1]
         IN  IF metric_row = <<>>
             THEN [lower |-> NoneValue, upper |-> NoneValue, mean |-> NoneValue]
             ELSE IF metric_name \in non_normal_metrics
             THEN [lower |-> Number(100 * row.expected_mean),
                   upper |-> Number(100 * row.expected_mean),
                   mean |-> Number(100 * row.expected_mean)]
             ELSE [lower |-> Number(100 * row.expected_mean - 196 * row.expected_std),
                   upper |-> Number(100 * row.expected_mean + 196 * row.expected_std),
                   mean |-> Number(100 * row.expected_mean)]

\* metric.startswith(prefix) for the 27 metric names.
StartsWith(metric, prefix) ==
    \/ prefix = "freq_" /\ \E i \in 0..9 : metric = FreqKey(i)
    \/ prefix = "coupon" /\ metric \in {"coupon_mean", "coupon_std"}
    \/ prefix = "pl" /\ \E d \in 1..5 : metric = "pl" \o ToString(d)

\* metric.split('_')[1] of a freq_ name, metric[2] of a pl name.
DigitOf(metric) ==
    ToString(CHOOSE i \in 0..9 :
                 metric = FreqKey(i) \/ metric = "pl" \o ToString(i))

\* [f(o) for o in xs]
Mapped(xs, f(_)) == [k \in range(Len(xs)) |-> f(xs[k])]

\* generate_improvement_suggestions: the suggestions in the order they are
\* appended, each kept as its kind and the digits or phases it names.
generate_improvement_suggestions(outliers) ==
    LET freq_outliers == SelectSeq(outliers, LAMBDA o : StartsWith(o.metric, "freq_"))
        favorite_digits ==
            Mapped(SelectSeq(freq_outliers, LAMBDA o : o.deviation_type = "high"),
                   LAMBDA o : DigitOf(o.metric))
        avoided_digits ==
            Mapped(SelectSeq(freq_outliers, LAMBDA o : o.deviation_type = "low"),
                   LAMBDA o : DigitOf(o.metric))
        pattern_outliers == SelectSeq(outliers, LAMBDA o :
            o.metric \in {"adjacent", "rp", "pl1", "pl2", "pl3"})
        dependency_outliers == SelectSeq(outliers, LAMBDA o :
            o.metric \in {"autocorr_lag1", "adjacent", "repetition_gap_mean"})
        variation_outliers == SelectSeq(outliers, LAMBDA o :
            o.metric \in {"tpi", "adjacent_diff_mean", "adjacent_diff_std"})
        collection_outliers == SelectSeq(outliers, LAMBDA o : StartsWith(o.metric, "coupon"))
        phase_outliers == SelectSeq(outliers, LAMBDA o : StartsWith(o.metric, "pl"))
        suggestions ==
            (IF Len(freq_outliers) > 3
             THEN << [kind |-> "digit_bias", favorite_digits |-> favorite_digits,
                      avoided_digits |-> avoided_digits] >>
             ELSE <<>>)
            \o (IF Len(pattern_outliers) >= 2 THEN << [kind |-> "pattern"] >> ELSE <<>>)
            \o (IF Len(dependency_outliers) >= 2 THEN << [kind |-> "dependency"] >> ELSE <<>>)
            \o (IF Len(variation_outliers) >= 2 THEN << [kind |-> "variation"] >> ELSE <<>>)
            \o (IF \E k \in 1..Len(outliers) : outliers[k].metric = "redundancy"
                THEN << [kind |-> "redundancy"] >> ELSE <<>>)
            \o (IF Len(collection_outliers) > 0 THEN << [kind |-> "collection"] >> ELSE <<>>)
            \o (IF Len(phase_outliers) >= 2
                THEN << [kind |-> "phase",
                         phases |-> Mapped(phase_outliers, LAMBDA o : DigitOf(o.metric))] >>
                ELSE <<>>)
    IN  IF suggestions = <<>> THEN << [kind |-> "minor"] >> ELSE suggestions

\* The outlier_info of one outlier of the analysis; actual_value > None is a
\* TypeError.
OutlierInfo(outlier, bounds_df) ==
    LET expected_range == calculate_statistical_range(outlier.metric, bounds_df)
    IN  IF expected_range.upper.kind = "None"
        THEN [raised |-> "TypeError"]
        ELSE [raised |-> "none",
              metric |-> outlier.metric,
              actual |-> outlier.value,
              expected_min |-> expected_range.lower,
              expected_max |-> expected_range.upper,
              expected_mean |-> expected_range.mean,
              deviation_type |->
                  IF outlier.value * expected_range.upper.d > expected_range.upper.n
                  THEN "high" ELSE "low"]

\* generate_deviation_report(randomness_analysis, stat_metrics) with the
\* bounds files as they are on disk.
generate_deviation_report(randomness_analysis, stat_metrics, files) ==
    LET bounds_df == server_load_bounds_table(files)
        infos == [k \in range(Len(randomness_analysis.outliers)) |->
                     OutlierInfo(randomness_analysis.outliers[k], bounds_df)]
        raised == FirstRaised(infos)
    IN  IF raised # "none" THEN [raised |-> raised]
        ELSE [raised |-> "none",
              summary |-> [total_metrics |-> Cardinality(DOMAIN stat_metrics),
                           outliers_count |-> Len(randomness_analysis.outliers),
                           within_bounds_count |-> Len(randomness_analysis.within_bounds),
                           is_random |-> Len(randomness_analysis.outliers) = 0],
              outliers |-> infos,
              improvements |-> generate_improvement_suggestions(infos)]

(***************************************************************************)
(* A caller of check_sequence_randomness (default table) and of            *)
(* generate_deviation_report on its result, as classify() does for a       *)
(* sequence judged human.                                                  *)
(***************************************************************************)
ReportRows ==
    { BoundsEntry(m, expected_mean, 1, b[1], b[2], 0, 6) :
        m \in {"redundancy", "pl3"}, expected_mean \in {2, 3},
        b \in { <<1, 3>>, <<2, 5>> } }

\* The records the result of extract_statistical_metrics is drawn from: the
\* two metrics of a one-row table, or the first k + j metrics of the 27 with
\* the last j outside the bounds.
ReportRecords ==
    [{"redundancy", "pl3"} -> (0..MaxVal) \cup {6}]
        \cup { SuiteRecord(k, j, outside) :
                  k \in {0, 17}, j \in 0..10, outside \in {0, 9} }

InitReport ==
    /\ \E t \in { <<e>> : e \in ReportRows } \cup {SuiteTable} :
          bounds_files \in
              { [script_dir |-> [present |-> TRUE, table |-> t], cwd |-> Absent],
                [script_dir |-> Absent, cwd |-> [present |-> TRUE, table |-> t]] }
    /\ test_metrics \in ReportRecords
    /\ value_type = "float"
    /\ bounds_table = "None"
    /\ results = [l \in ConfidenceLevels |-> NotCalled]
    /\ output = NoOutput
    /\ sequence = [kind |-> "list", items |-> <<>>]
    /\ batch = NoBatch
    /\ random_state = [seed |-> Seed, drawn |-> 0]

\* One call generate_deviation_report(results[level], test_metrics), the
\* analysis being one check_sequence_randomness returned.
GenerateDeviationReport(level) ==
    /\ results[level].called
    /\ results[level].raised = "none"
    /\ output = NoOutput
    /\ output' = [op |-> "generate_deviation_report", level |-> level,
                  result |-> generate_deviation_report(results[level], test_metrics,
                                                       bounds_files)]
    /\ UNCHANGED <<sequence, batch, random_state, bounds_files>>
    /\ UNCHANGED checker_vars

NextReport ==
    \/ \E level \in ConfidenceLevels : CheckDefault(level)
    \/ \E level \in ConfidenceLevels : GenerateDeviationReport(level)

SpecReport == InitReport /\ [][NextReport]_vars

(***************************************************************************)
(* Properties of the result of check_sequence_randomness.                  *)
(***************************************************************************)
Returned(l) == results[l].called /\ results[l].raised = "none"

Raised(l) == results[l].called /\ results[l].raised # "none"

TableMetrics == { bounds_table[i].metric : i \in DOMAIN bounds_table }

UniqueMetricNames ==
    \A i, j \in DOMAIN bounds_table :
        bounds_table[i].metric = bounds_table[j].metric => i = j

\* How many entries of a list of entries are about metric m.
Occurrences(entries, m) ==
    Cardinality({ i \in DOMAIN entries : entries[i].metric = m })

\* How many times the name m is in a list of names.
NameOccurrences(names, m) ==
    Cardinality({ i \in DOMAIN names : names[i] = m })

RowsInRecord == { i \in DOMAIN bounds_table :
                    bounds_table[i].metric \in DOMAIN test_metrics }

RowsNotInRecord == DOMAIN bounds_table \ RowsInRecord

\* C1: with unique metric names in the table, every table metric that is a key
\* of the record is in exactly one of within_bounds and outliers, exactly once,
\* and the counts agree: total_metrics_tested = within_bounds_count +
\* outlier_count, and with missing_metrics_count they add up to the number of
\* table rows.
C1_ClassifiedExactlyOnce ==
    \A l \in ConfidenceLevels :
        (Returned(l) /\ UniqueMetricNames) =>
            LET r == results[l] IN
            /\ \A m \in TableMetrics \cap DOMAIN test_metrics :
                  Occurrences(r.within_bounds, m) + Occurrences(r.outliers, m) = 1
            /\ r.within_bounds_count = Len(r.within_bounds)
            /\ r.outlier_count = Len(r.outliers)
            /\ r.missing_metrics_count = Len(r.missing_metrics)
            /\ r.total_metrics_tested = r.within_bounds_count + r.outlier_count
            /\ r.within_bounds_count + r.outlier_count + r.missing_metrics_count
                  = Len(bounds_table)

\* A table of two distinct metrics, one classified within bounds and the other
\* an outlier.
C1_Witness ==
    \E l \in ConfidenceLevels :
        /\ Returned(l) /\ UniqueMetricNames /\ Len(bounds_table) = 2
        /\ results[l].within_bounds_count = 1
        /\ results[l].outlier_count = 1

\* C2: whenever the call is made, every table metric that is not a key of the
\* record is in missing_metrics and not counted in total_metrics_tested, the
\* call raises no error, and every table metric that is a key of the record is
\* still classified.
C2_MissingNeverFatal ==
    \A l \in ConfidenceLevels :
        results[l].called =>
            \A m \in TableMetrics \ DOMAIN test_metrics :
                /\ results[l].raised = "none"
                /\ NameOccurrences(results[l].missing_metrics, m) >= 1
                /\ results[l].total_metrics_tested = Cardinality(RowsInRecord)
                /\ \A p \in TableMetrics \cap DOMAIN test_metrics :
                      Occurrences(results[l].within_bounds, p)
                        + Occurrences(results[l].outliers, p) >= 1

\* The part of C2 the code keeps: in every result that is returned, the missing
\* table metrics are listed once per row, are not counted, and the others are
\* classified.
C2_MissingHandledInResults ==
    \A l \in ConfidenceLevels :
        Returned(l) =>
            /\ \A m \in TableMetrics \ DOMAIN test_metrics :
                  NameOccurrences(results[l].missing_metrics, m) =
                      Cardinality({ i \in DOMAIN bounds_table :
                                      bounds_table[i].metric = m })
            /\ results[l].total_metrics_tested = Cardinality(RowsInRecord)
            /\ \A p \in TableMetrics \cap DOMAIN test_metrics :
                  Occurrences(results[l].within_bounds, p)
                    + Occurrences(results[l].outliers, p) >= 1

\* C3 as stated: a key of the record that no table row names is reported in
\* missing_metrics (and so counted in missing_metrics_count).
C3_RecordOnlyKeyReportedMissing ==
    \A l \in ConfidenceLevels :
        Returned(l) =>
            \A m \in DOMAIN test_metrics \ TableMetrics :
                NameOccurrences(results[l].missing_metrics, m) >= 1

\* C3 (amended): a key of the record that no table row names is ignored: it is
\* in none of missing_metrics, within_bounds and outliers; missing_metrics_count
\* counts the table rows whose metric is not a key of the record, and
\* total_metrics_tested the table rows whose metric is a key of the record.
C3_RecordOnlyKeyIgnored ==
    \A l \in ConfidenceLevels :
        Returned(l) =>
            LET r == results[l] IN
            /\ \A m \in DOMAIN test_metrics \ TableMetrics :
                  /\ NameOccurrences(r.missing_metrics, m) = 0
                  /\ Occurrences(r.within_bounds, m) = 0
                  /\ Occurrences(r.outliers, m) = 0
            /\ r.missing_metrics_count = Cardinality(RowsNotInRecord)
            /\ r.total_metrics_tested = Cardinality(RowsInRecord)

\* A record with a transition feature no table row names, checked against a
\* table that scores one metric and misses another.
C3_Witness ==
    \E l \in ConfidenceLevels :
        /\ Returned(l)
        /\ FeatureOnlyName \in DOMAIN test_metrics
        /\ results[l].total_metrics_tested = 1
        /\ results[l].missing_metrics_count = 1

\* The bounds of a table row at a confidence level, and the record's value.
RowLower(i, l) ==
    IF l = 95 THEN bounds_table[i].bound_95_lower ELSE bounds_table[i].bound_99_lower

RowUpper(i, l) ==
    IF l = 95 THEN bounds_table[i].bound_95_upper ELSE bounds_table[i].bound_99_upper

RowValue(i) == test_metrics[bounds_table[i].metric]

RowWithin(i, l) ==
    /\ i \in RowsInRecord
    /\ RowLower(i, l) <= RowValue(i)
    /\ RowValue(i) <= RowUpper(i, l)

RowOutside(i, l) ==
    /\ i \in RowsInRecord
    /\ (RowValue(i) < RowLower(i, l) \/ RowValue(i) > RowUpper(i, l))

\* C4: randomness_score = within_bounds_count / (within_bounds_count +
\* outlier_count), it is 0 when no metric was scored, it lies in [0,1], and a
\* record whose 27 metrics are all within their bounds gives outlier_count = 0
\* and randomness_score = 1.
C4_ScoreIsWithinOverScored ==
    \A l \in ConfidenceLevels :
        Returned(l) =>
            LET r == results[l]
                w == r.within_bounds_count
                o == r.outlier_count
                s == r.randomness_score
            IN  /\ s.kind = "ratio" /\ s.d > 0
                /\ (w + o > 0 => s.n * (w + o) = w * s.d)
                /\ (w + o = 0 => s.n = 0)
                /\ 0 <= s.n /\ s.n <= s.d
                /\ (\A i \in DOMAIN bounds_table : RowWithin(i, l)) =>
                      (bounds_table # <<>> => (o = 0 /\ s.n = s.d))

\* The 27 metrics of the table are all within their 95% bounds.
C4_Witness ==
    /\ Returned(95)
    /\ Len(bounds_table) = Len(get_required_metrics)
    /\ \A i \in DOMAIN bounds_table : RowWithin(i, 95)
    /\ results[95].within_bounds_count = Len(get_required_metrics)
    /\ results[95].randomness_score.n = results[95].randomness_score.d

\* C5: the assessment is decided by strict thresholds on within/total:
\* > 0.90 highly_likely_random, > 0.80 likely_random, > 0.70 possibly_random,
\* > 0.50 possibly_non_random, else likely_non_random; a score on a threshold
\* takes the lower label (9/10 likely_random, 1/2 likely_non_random).
C5_AssessmentByStrictThresholds ==
    \A l \in ConfidenceLevels :
        Returned(l) =>
            LET r == results[l]
                w == r.within_bounds_count
                t == r.total_metrics_tested
            IN  /\ r.assessment =
                      IF 10 * w > 9 * t THEN "highly_likely_random"
                      ELSE IF 10 * w > 8 * t THEN "likely_random"
                      ELSE IF 10 * w > 7 * t THEN "possibly_random"
                      ELSE IF 10 * w > 5 * t THEN "possibly_non_random"
                      ELSE "likely_non_random"
                /\ (t > 0 /\ 10 * w = 9 * t) => r.assessment = "likely_random"
                /\ (t > 0 /\ 2 * w = t) => r.assessment = "likely_non_random"

\* Nine of ten scored metrics are within bounds: the score is exactly 0.90.
C5_Witness ==
    /\ Returned(95)
    /\ results[95].within_bounds_count = 9
    /\ results[95].total_metrics_tested = 10
    /\ results[95].assessment = "likely_random"

\* C6: a value with lower <= value <= upper is classified within bounds, with
\* standardized distance |value - expected_mean| / expected_std, and with the
\* distance 0 when expected_std is 0: no error and no infinite or undefined
\* value.
C6_WithinBoundsStandardized ==
    \A l \in ConfidenceLevels :
        results[l].called =>
            \A i \in DOMAIN bounds_table :
                RowWithin(i, l) =>
                    /\ results[l].raised = "none"
                    /\ \E k \in DOMAIN results[l].within_bounds :
                          LET e == results[l].within_bounds[k]
                              row == bounds_table[i]
                          IN  /\ e.metric = row.metric
                              /\ e.distance_from_mean.kind = "ratio"
                              /\ IF row.expected_std = 0
                                 THEN e.distance_from_mean.n = 0
                                 ELSE e.distance_from_mean.n * row.expected_std =
                                        Abs(RowValue(i) - row.expected_mean)
                                          * e.distance_from_mean.d

\* The part of C6 the code keeps: with expected_std # 0 the value is classified
\* within bounds and its distance is |value - expected_mean| / expected_std.
C6_StandardizedWhenStdNonzero ==
    \A l \in ConfidenceLevels :
        results[l].called =>
            \A i \in DOMAIN bounds_table :
                (RowWithin(i, l) /\ bounds_table[i].expected_std # 0) =>
                    /\ results[l].raised = "none"
                    /\ \E k \in DOMAIN results[l].within_bounds :
                          LET e == results[l].within_bounds[k]
                              row == bounds_table[i]
                          IN  /\ e.metric = row.metric
                              /\ e.distance_from_mean.kind = "ratio"
                              /\ e.distance_from_mean.n * row.expected_std =
                                    Abs(RowValue(i) - row.expected_mean)
                                      * e.distance_from_mean.d

\* C7: for a scored value outside [lower, upper] the outlier entry has
\* direction "below" exactly when value < lower and "above" exactly when
\* value > upper, and distance_from_bound is lower - value when below and
\* value - upper when above.
C7_DirectionAndDistance ==
    \A l \in ConfidenceLevels :
        Returned(l) =>
            \A i \in DOMAIN bounds_table :
                RowOutside(i, l) =>
                    /\ Occurrences(results[l].outliers, bounds_table[i].metric) >= 1
                    /\ \A k \in DOMAIN results[l].outliers :
                          LET o == results[l].outliers[k] IN
                          o.metric = bounds_table[i].metric =>
                              /\ o.direction \in {"below", "above"}
                              /\ o.direction = "below" <=> RowValue(i) < RowLower(i, l)
                              /\ o.direction = "above" <=> RowValue(i) > RowUpper(i, l)
                              /\ o.direction = "below" =>
                                    o.distance_from_bound = RowLower(i, l) - RowValue(i)
                              /\ o.direction = "above" =>
                                    o.distance_from_bound = RowValue(i) - RowUpper(i, l)

\* redundancy = 0.045 against the 95% bounds [0.005, 0.025] (mean 0.015, std
\* 0.005), in units of 0.005: an outlier with direction "above".
C7_Witness ==
    /\ Returned(95)
    /\ test_metrics = [redundancy |-> 9]
    /\ bounds_table[1].expected_mean = 3 /\ bounds_table[1].expected_std = 1
    /\ bounds_table[1].bound_95_lower = 1 /\ bounds_table[1].bound_95_upper = 5
    /\ results[95].outlier_count = 1
    /\ results[95].outliers[1].direction = "above"
    /\ results[95].outliers[1].distance_from_bound = 4

\* The table row an outlier entry is about (tables of one row per metric).
RowOf(o) == CHOOSE i \in DOMAIN bounds_table : bounds_table[i].metric = o.metric

\* C8: relative_distance = distance_from_bound / expected_mean, the
\* denominator being 1 when expected_mean <= 0; severity is "extreme" when
\* relative_distance > 1.0, else "high" when > 0.5, else "moderate" (exactly
\* 1.0 is "high", exactly 0.5 is "moderate").
C8_RelativeDistanceAndSeverity ==
    \A l \in ConfidenceLevels :
        Returned(l) =>
            \A k \in DOMAIN results[l].outliers :
                LET o == results[l].outliers[k]
                    expected == bounds_table[RowOf(o)].expected_mean
                    den == IF expected <= 0 THEN 1 ELSE expected
                    dist == o.distance_from_bound
                    rd == o.relative_distance
                IN  /\ rd.kind = "ratio" /\ rd.d > 0
                    /\ rd.n * den = dist * rd.d
                    /\ o.severity = IF dist > den THEN "extreme"
                                    ELSE IF 2 * dist > den THEN "high"
                                    ELSE "moderate"
                    /\ dist = den => o.severity = "high"
                    /\ 2 * dist = den => o.severity = "moderate"

\* An outlier whose distance from the bound equals a positive expected_mean
\* (relative_distance exactly 1.0) and whose severity is "high".
C8_Witness ==
    \E l \in ConfidenceLevels :
        /\ Returned(l)
        /\ results[l].outlier_count = 1
        /\ bounds_table[1].expected_mean > 1
        /\ results[l].outliers[1].distance_from_bound = bounds_table[1].expected_mean
        /\ results[l].outliers[1].severity = "high"

\* C9: severe_outlier_count is the number of entries of outliers whose
\* severity is "high" or "extreme", so 0 <= severe_outlier_count <= outlier_count.
C9_SevereOutlierCount ==
    \A l \in ConfidenceLevels :
        Returned(l) =>
            LET r == results[l] IN
            /\ r.severe_outlier_count =
                  Cardinality({ k \in DOMAIN r.outliers :
                                  r.outliers[k].severity \in {"high", "extreme"} })
            /\ 0 <= r.severe_outlier_count
            /\ r.severe_outlier_count <= r.outlier_count

\* Two outliers, one "moderate" and one severe.
C9_Witness ==
    \E l \in ConfidenceLevels :
        /\ Returned(l)
        /\ results[l].outlier_count = 2
        /\ results[l].severe_outlier_count = 1
        /\ \E k \in DOMAIN results[l].outliers :
              results[l].outliers[k].severity = "moderate"

\* The 99% bounds of every row contain its 95% bounds.
WiderAt99 ==
    \A i \in DOMAIN bounds_table :
        /\ bounds_table[i].bound_99_lower <= bounds_table[i].bound_95_lower
        /\ bounds_table[i].bound_95_upper <= bounds_table[i].bound_99_upper

\* C10: for the same record and table, with the 99% bounds wider than the 95%
\* bounds, the call at level 99 never yields a larger outlier_count than the
\* call at level 95.
C10_WiderBoundsNoMoreOutliers ==
    (Returned(95) /\ Returned(99) /\ WiderAt99) =>
        results[99].outlier_count <= results[95].outlier_count

\* Both levels were run on a table with wider 99% bounds, and level 99 has
\* fewer outliers.
C10_Witness ==
    /\ Returned(95) /\ Returned(99) /\ WiderAt99
    /\ results[95].outlier_count = 2
    /\ results[99].outlier_count < results[95].outlier_count

C12_PlDeterministic ==
    output.op = "pl" =>
        \A i, j \in DOMAIN output.calls :
            output.calls[i].d = output.calls[j].d
                => SameValue(output.calls[i].value, output.calls[j].value)

\* C13: with the bounds file absent, get_required_metrics returns the
\* hardcoded list of exactly 27 distinct metric names and raises nothing, and
\* check_sequence_randomness called without a table, having tried the script
\* directory and then the working directory, raises an error instead of
\* returning a result.
BoundsFileAbsent ==
    ~bounds_files.script_dir.present /\ ~bounds_files.cwd.present

C13_AbsentBoundsFile ==
    BoundsFileAbsent =>
        /\ output.op = "get_required_metrics" =>
              /\ output.result.raised = "none"
              /\ output.result.value = get_required_metrics
              /\ Len(output.result.value) = 27
              /\ Cardinality({output.result.value[i] :
                                 i \in 1..Len(output.result.value)}) = 27
        /\ \A l \in ConfidenceLevels :
              results[l].called => results[l].raised = "FileNotFoundError"

\* Neither place has the file, get_required_metrics was called and
\* check_sequence_randomness was called without a table at both levels.
C13_Witness ==
    /\ BoundsFileAbsent
    /\ output.op = "get_required_metrics"
    /\ \A l \in ConfidenceLevels : results[l].called

\* C14: each row of calculate_transition_matrix(sequence, k) sums to exactly
\* 1 or to exactly 0; the row of a symbol with no outgoing k-step transition
\* is all zeros, never a left-over value; every entry is in [0, 1].
RECURSIVE RowTotal(_, _)
RowTotal(row, j) ==
    IF j < 0 THEN Zero
    ELSE Plus(RowTotal(row, j - 1), row[j])

C14_RowsSumToOneOrZero ==
    (output.op = "calculate_transition_matrix" /\ output.result.raised = "none") =>
        \A i \in 0..(output.base - 1) :
            LET row == output.result.matrix[i]
                total == RowTotal(row, output.base - 1)
            IN  /\ total.n = total.d \/ total.n = 0
                /\ RowSumCount(sequence.items, output.step, output.base, i) = 0
                      => \A j \in 0..(output.base - 1) : row[j] = Zero
                /\ \A j \in 0..(output.base - 1) :
                      row[j].n >= 0 /\ row[j].n <= row[j].d

\* C20: for a non-empty sequence over [0, base) digit_frequencies returns
\* exactly the keys freq_0 .. freq_{base-1}, each value count_i / len(z), in
\* [0, 1], the values summing to 1 (0.1 each for the sequence 0..9); for the
\* empty sequence every value is 0.0.
RECURSIVE FreqTotal(_, _)
FreqTotal(freq, i) ==
    IF i < 0 THEN Zero
    ELSE Plus(FreqTotal(freq, i - 1), freq[FreqKey(i)])

C20_DigitFrequencies ==
    (/\ output.op = "digit_frequencies"
     /\ \A k \in 1..Len(sequence.items) : sequence.items[k] \in 0..(output.base - 1)) =>
        LET z == sequence.items
            freq == output.result.value
            total == FreqTotal(freq, output.base - 1)
        IN  /\ output.result.raised = "none"
            /\ DOMAIN freq = {FreqKey(i) : i \in 0..(output.base - 1)}
            /\ Cardinality(DOMAIN freq) = output.base
            /\ z # <<>> =>
                  /\ \A i \in 0..(output.base - 1) :
                        /\ SameValue(freq[FreqKey(i)],
                                     [n |-> CountOf(z, i), d |-> Len(z)])
                        /\ freq[FreqKey(i)].n >= 0
                        /\ freq[FreqKey(i)].n <= freq[FreqKey(i)].d
                  /\ total.n = total.d
            /\ z = AllDigits =>
                  \A i \in 0..9 : SameValue(freq[FreqKey(i)], [n |-> 1, d |-> 10])
            /\ z = <<>> => \A i \in 0..(output.base - 1) : freq[FreqKey(i)] = Zero

\* digit_frequencies was called on the sequence 0..9 with base 10.
C20_Witness ==
    /\ output.op = "digit_frequencies"
    /\ output.base = 10
    /\ sequence.items = AllDigits
    /\ output.result.value["freq_7"] = [n |-> 1, d |-> 10]

\* digit_frequencies was called on the empty sequence.
C20_WitnessEmpty ==
    /\ output.op = "digit_frequencies"
    /\ sequence.items = <<>>
    /\ output.result.value["freq_0"] = Zero

\* C19: for every sequence of integers over [0, 10), of any length (0, 1 and
\* 2 included), calculate_statistical_metrics returns a complete record of
\* the 27 metric names without raising, with the documented defaults: adjacent,
\* rp, autocorr_lag1, adjacent_diff_mean and adjacent_diff_std 0.0 below
\* length 2; tpi 0.0 below length 3; pl_d 0.0 below length d + 3; redundancy,
\* max_min_ratio, repetition_gap_mean, repetition_gap_std and every freq_i 0.0
\* for the empty sequence; coupon_mean = coupon_std = len(z) + 1 when no
\* start collects all ten digits.
MetricNameSet == {get_required_metrics[i] : i \in 1..Len(get_required_metrics)}

NoStartCompletes(z) ==
    \A i \in 1..Len(z) : \E x \in 0..9 : \A k \in i..Len(z) : z[k] # x

C19_CompleteRecordWithDefaults ==
    output.op = "calculate_statistical_metrics" =>
        LET z == sequence.items
            m == output.result.metrics
        IN  /\ output.result.raised = "none"
            /\ DOMAIN m = MetricNameSet
            /\ Cardinality(DOMAIN m) = 27
            /\ Len(z) < 2 =>
                  \A name \in {"adjacent", "rp", "autocorr_lag1",
                               "adjacent_diff_mean", "adjacent_diff_std"} :
                      m[name] = Zero
            /\ Len(z) < 3 => m["tpi"] = Zero
            /\ \A d \in 1..5 :
                  Len(z) < d + 3 => m["pl" \o ToString(d)] = Zero
            /\ Len(z) = 0 =>
                  /\ \A name \in {"redundancy", "max_min_ratio",
                                  "repetition_gap_mean", "repetition_gap_std"} :
                        m[name] = Zero
                  /\ \A i \in 0..9 : m[FreqKey(i)] = Zero
            /\ NoStartCompletes(z) =>
                  /\ m["coupon_mean"] = [n |-> Len(z) + 1, d |-> 1]
                  /\ m["coupon_std"] = [n |-> Len(z) + 1, d |-> 1]

\* calculate_statistical_metrics returned the record of a sequence of length
\* 2: the defaults of tpi and pl1 .. pl5 apply, those of adjacent no longer.
C19_Witness ==
    /\ output.op = "calculate_statistical_metrics"
    /\ sequence.items = <<1, 2>>
    /\ output.result.raised = "none"
    /\ output.result.metrics["adjacent"] = [n |-> 1, d |-> 1]
    /\ output.result.metrics["tpi"] = Zero
    /\ output.result.metrics["coupon_mean"] = [n |-> 3, d |-> 1]

\* calculate_statistical_metrics returned the record of the empty sequence.
C19_WitnessEmpty ==
    /\ output.op = "calculate_statistical_metrics"
    /\ sequence.items = <<>>
    /\ output.result.raised = "none"
    /\ output.result.metrics["coupon_std"] = [n |-> 1, d |-> 1]

\* C15: for a valid sequence calculate_all_features returns one flat record
\* whose key set is exactly the 27 metric names plus the names
\* step{k}_trans_{from}_to_{to} for k in 1..5 and from, to in 0..9, no metric
\* name being a transition name: 527 distinct keys.
ValidSequence(z) ==
    /\ z.kind = "list"
    /\ \A k \in 1..Len(z.items) : z.items[k] \in 0..9

C15_FeatureKeySet ==
    (output.op = "calculate_all_features" /\ ValidSequence(sequence)) =>
        /\ output.result.raised = "none"
        /\ DOMAIN output.result.features =
              MetricNameSet \cup
                  { "step" \o ToString(k) \o "_trans_" \o ToString(from)
                        \o "_to_" \o ToString(to) :
                      k \in 1..5, from \in 0..9, to \in 0..9 }
        /\ MetricNameSet \cap TransitionKeys = {}
        /\ Cardinality(TransitionKeys) = 500
        /\ Cardinality(DOMAIN output.result.features) = 527

\* calculate_all_features returned the record of the valid sequence 0, 9, 0:
\* the step-1 transition 0 -> 9 and the step-2 transition 0 -> 0 are in it.
C15_Witness ==
    /\ output.op = "calculate_all_features"
    /\ sequence = [kind |-> "list", items |-> <<0, 9, 0>>]
    /\ output.result.raised = "none"
    /\ output.result.features["step1_trans_0_to_9"] = [n |-> 1, d |-> 1]
    /\ output.result.features["step2_trans_0_to_0"] = [n |-> 1, d |-> 1]
    /\ output.result.features["freq_0"] = [n |-> 2, d |-> 3]

\* C17: the aggregator accepts a string in place of an integer sequence:
\* the characters that are not digits are filtered out, no error is raised for
\* them, and the record is the record of the list of the string's digits.
DigitList(z) == [kind |-> "list", items |-> _prepare_sequence(z)]

C17_StringInputFiltered ==
    (output.op = "calculate_all_features" /\ sequence.kind = "str") =>
        /\ output.result.raised = "none"
        /\ output.result.features =
              calculate_all_features(DigitList(sequence),
                                     [seed |-> Seed, drawn |-> 0],
                                     [i \in 0..(Base - 1) |-> output.leftover]).features

\* In the results that are returned for a string, the record is the record of
\* the list of its digits.
C17_ReturnedStringRecord ==
    (/\ output.op = "calculate_all_features"
     /\ sequence.kind = "str"
     /\ output.result.raised = "none") =>
        output.result.features =
            calculate_all_features(DigitList(sequence),
                                   [seed |-> Seed, drawn |-> 0],
                                   [i \in 0..(Base - 1) |-> output.leftover]).features

\* C18: a sequence with a symbol outside [0, base) is rejected before any
\* metric is computed: calculate_all_features returns no record for it and
\* counts no out-of-range symbol as a valid one.
OutOfRange(z) ==
    /\ z.kind = "list"
    /\ \E k \in 1..Len(z.items) : z.items[k] < 0 \/ z.items[k] >= Base

C18_OutOfRangeRejected ==
    (output.op = "calculate_all_features" /\ OutOfRange(sequence)) =>
        /\ output.result.raised # "none"
        /\ random_state = [seed |-> Seed, drawn |-> 0]

\* C16: calculate_features_for_sequences processes each input sequence
\* independently and returns one row per input in input order: row i holds
\* the features of sequences[i], tagged with sequence_ids[i] when identifiers
\* are supplied and with the position i otherwise.
IdsFitBatch ==
    batch.sequence_ids.given =>
        Len(batch.sequence_ids.ids) = Len(batch.sequences)

FeaturesAlone(z, cell) ==
    calculate_all_features(z, [seed |-> Seed, drawn |-> 0],
                           [i \in 0..(Base - 1) |-> cell]).features

C16_RowsIndependentInOrder ==
    (output.op = "calculate_features_for_sequences" /\ IdsFitBatch) =>
        /\ output.result.raised = "none"
        /\ Len(output.result.rows) = Len(batch.sequences)
        /\ \A i \in 1..Len(batch.sequences) :
              /\ output.result.rows[i].sequence_id =
                    IF batch.sequence_ids.given
                    THEN batch.sequence_ids.ids[i] ELSE i - 1
              /\ output.result.rows[i].features =
                    FeaturesAlone(batch.sequences[i], output.leftover)
        /\ \A i, j \in 1..Len(batch.sequences) :
              batch.sequences[i] = batch.sequences[j] =>
                  output.result.rows[i].features = output.result.rows[j].features

\* In the results that are returned there is one row per input, in input
\* order and tagged as claimed, and row i agrees with the features of
\* sequences[i] in everything but pl1 .. pl5.
PlNames == {"pl" \o ToString(d) : d \in 1..5}

C16_ReturnedRowsInOrder ==
    (/\ output.op = "calculate_features_for_sequences"
     /\ output.result.raised = "none") =>
        /\ Len(output.result.rows) = Len(batch.sequences)
        /\ \A i \in 1..Len(batch.sequences) :
              /\ output.result.rows[i].sequence_id =
                    IF batch.sequence_ids.given
                    THEN batch.sequence_ids.ids[i] ELSE i - 1
              /\ LET alone == FeaturesAlone(batch.sequences[i], output.leftover)
                 IN  \A key \in DOMAIN alone \ PlNames :
                         output.result.rows[i].features[key] = alone[key]


\* C21: for every non-empty sequence over [0, base), 0 <= redundancy <= 1;
\* redundancy is 1 when the sequence holds a single distinct symbol and 0
\* when each of the base symbols occurs equally often; the redundancy of the
\* empty sequence is 0.0.  With entropy H = - sum (c/n) log2 (c/n) over the
\* counts c, 2^(n H) is the product of (n/c)^c, so H >= 0 is "the product is
\* at least 1" and H <= log2(base) is "the product of (n/(base c))^c is at
\* most 1"; the products are compared after taking the g-th root, g dividing
\* every exponent.
Times(a, b) ==
    LET n == a.n * b.n
        d == a.d * b.d
        g == GCD(n, d)
    IN  [n |-> n \div g, d |-> d \div g]

RECURSIVE Power(_, _)
Power(q, k) == IF k = 0 THEN [n |-> 1, d |-> 1] ELSE Times(q, Power(q, k - 1))

\* The total exponent of the counts equal to c.
CountExponent(r, c) == c * Cardinality({x \in DOMAIN r.counts : r.counts[x] = c})

RECURSIVE PowerProduct(_, _, _, _)
PowerProduct(r, scale, cs, g) ==
    IF cs = {} THEN [n |-> 1, d |-> 1]
    ELSE LET c == CHOOSE x \in cs : TRUE
             factor == LET f == GCD(r.n, scale * c)
                       IN  [n |-> r.n \div f, d |-> (scale * c) \div f]
         IN  Times(Power(factor, CountExponent(r, c) \div g),
                   PowerProduct(r, scale, cs \ {c}, g))

\* The g-th root of the product of (n / (scale * c))^c over the symbols.
EntropyPower(r, scale) ==
    LET cs == {r.counts[x] : x \in DOMAIN r.counts}
        divides(g) == \A c \in cs : CountExponent(r, c) % g = 0
        g == CHOOSE x \in 1..r.n : divides(x) /\ \A y \in 1..r.n : divides(y) => y <= x
    IN  PowerProduct(r, scale, cs, g)

InBase(z, base) == \A k \in 1..Len(z) : z[k] \in 0..(base - 1)

C21_WitnessSingle ==
    /\ output.op = "redundancy"
    /\ sequence.items = <<2, 2, 2>>
    /\ EntropyPower(output.result.value, 1) = [n |-> 1, d |-> 1]

\* C22: max_min_ratio is the largest occurrence count divided by the smallest,
\* over the symbols that occur: 0.0 for the empty sequence, 1.0 whenever all
\* occurring symbols have equal counts, and for every non-empty sequence a
\* finite value >= 1 (the +infinity branch is never taken).
C22_MaxMinRatio ==
    output.op = "max_min_ratio" =>
        LET z == sequence.items
            r == output.result.value
            symbols == {z[k] : k \in 1..Len(z)}
        IN  /\ output.result.raised = "none"
            /\ z = <<>> => r = Zero
            /\ z # <<>> =>
                  /\ r # [kind |-> "inf"]
                  /\ r.d > 0
                  /\ r.n >= r.d
                  /\ \E x, y \in symbols :
                        /\ \A other \in symbols :
                              /\ CountOf(z, x) >= CountOf(z, other)
                              /\ CountOf(z, y) <= CountOf(z, other)
                        /\ SameValue(r, [n |-> CountOf(z, x), d |-> CountOf(z, y)])
                  /\ (\A x, y \in symbols : CountOf(z, x) = CountOf(z, y))
                        => r.n = r.d

\* max_min_ratio was called on [2, 2, 2] with base 10, where seven symbols of
\* the range do not occur, and returned 1.0.
C22_Witness ==
    /\ output.op = "max_min_ratio"
    /\ output.base = Base
    /\ sequence.items = <<2, 2, 2>>
    /\ output.result.value = [n |-> 3, d |-> 3]

\* max_min_ratio was called on a sequence with unequal counts.
C22_WitnessUnequal ==
    /\ output.op = "max_min_ratio"
    /\ sequence.items = <<0, 1, 0, 0>>
    /\ output.result.value = [n |-> 3, d |-> 1]

\* C23: generate_improvement_suggestions emits the combined digit-bias
\* suggestion whenever at least 3 of the reported outliers are frequency
\* metrics (freq_*), and does not emit it for fewer than 3.
FreqOutlierCount(outliers) ==
    Cardinality({k \in 1..Len(outliers) :
                    \E i \in 0..9 : outliers[k].metric = FreqKey(i)})

HasSuggestion(improvements, kind) ==
    \E k \in 1..Len(improvements) : improvements[k].kind = kind

C23_DigitBiasFromThree ==
    (output.op = "generate_deviation_report" /\ output.result.raised = "none") =>
        (HasSuggestion(output.result.improvements, "digit_bias")
            <=> FreqOutlierCount(output.result.outliers) >= 3)

\* What the code does: the suggestion is emitted from four frequency
\* outliers on.
C23_DigitBiasFromFour ==
    (output.op = "generate_deviation_report" /\ output.result.raised = "none") =>
        (HasSuggestion(output.result.improvements, "digit_bias")
            <=> FreqOutlierCount(output.result.outliers) >= 4)

\* A report of exactly three frequency outliers, without the suggestion.
C23_ThreeFrequencyOutliers ==
    /\ output.op = "generate_deviation_report"
    /\ output.result.raised = "none"
    /\ FreqOutlierCount(output.result.outliers) = 3
    /\ ~HasSuggestion(output.result.improvements, "digit_bias")

\* C30: in the deviation report built from a comparator result, the
\* deviation_type of every outlier agrees with the comparator's direction for
\* the same metric: "high" exactly when the direction is "above", "low"
\* exactly when it is "below".
C30_DeviationTypeAgreesWithDirection ==
    (output.op = "generate_deviation_report" /\ output.result.raised = "none") =>
        LET analysis == results[output.level]
        IN  \A k \in 1..Len(output.result.outliers) :
                /\ output.result.outliers[k].metric = analysis.outliers[k].metric
                /\ output.result.outliers[k].deviation_type = "high"
                      <=> analysis.outliers[k].direction = "above"
                /\ output.result.outliers[k].deviation_type = "low"
                      <=> analysis.outliers[k].direction = "below"

\* The report of the 95% analysis of redundancy = 4 under a row with bounds
\* [1, 3], mean 3 and std 1: the comparator says "above" (4 > 3), the report
\* says "low" (4 is not above 3 + 1.96).
C30_AboveReportedLow ==
    /\ output.op = "generate_deviation_report"
    /\ output.level = 95
    /\ output.result.raised = "none"
    /\ \E k \in 1..Len(output.result.outliers) :
          /\ results[95].outliers[k].direction = "above"
          /\ output.result.outliers[k].deviation_type = "low"

\* C24: for every sequence and step k, entry [a][b] of the transition matrix
\* is the number of indices i with 0 <= i < len - k, z[i] = a and z[i+k] = b,
\* divided by the number of indices i with 0 <= i < len - k and z[i] = a,
\* every index pair (i, i+k) inside the sequence being counted exactly once;
\* the feature step{k}_trans_{a}_to_{b} carries exactly that entry.  The
\* quotient is defined for the symbols a that have a pair at step k.
PairsFrom(z, k, a) == {i \in 1..(Len(z) - k) : z[i] = a}

C24_TransitionEntries ==
    (/\ output.op = "calculate_all_features"
     /\ ValidSequence(sequence)
     /\ output.result.raised = "none") =>
        LET z == sequence.items
            features == output.result.features
        IN  \A k \in 1..MaxStep :
                /\ Cardinality(UNION {PairsFrom(z, k, a) : a \in 0..9})
                      = IF Len(z) > k THEN Len(z) - k ELSE 0
                /\ \A a \in {z[i] : i \in 1..(Len(z) - k)}, b \in 0..9 :
                      LET pairs == PairsFrom(z, k, a)
                          hits == {i \in pairs : z[i + k] = b}
                      IN  SameValue(features[FeatureName(k, a, b)],
                                    [n |-> Cardinality(hits),
                                     d |-> Cardinality(pairs)])

\* calculate_all_features returned the record of 0, 9, 0, 0, 9, 9: of the
\* three step-1 pairs from 0 one goes to 0, of the two step-3 pairs from 0
\* one goes to 0, and the one step-5 pair goes from 0 to 9.
C24_Witness ==
    /\ output.op = "calculate_all_features"
    /\ sequence.items = SixDigits
    /\ output.result.raised = "none"
    /\ output.result.features["step1_trans_0_to_0"] = [n |-> 1, d |-> 3]
    /\ output.result.features["step1_trans_0_to_9"] = [n |-> 2, d |-> 3]
    /\ output.result.features["step3_trans_0_to_0"] = [n |-> 1, d |-> 2]
    /\ output.result.features["step5_trans_0_to_9"] = [n |-> 1, d |-> 1]


(***************************************************************************)
(* tpi.                                                                    *)
(***************************************************************************)
\* The reversals of z counted on the differences as they stand: the pairs of
\* non-zero differences of opposite sign with nothing but zero differences
\* between them.
Reversals(z) ==
    LET D == [i \in range(Len(z) - 1) |-> z[i + 1] - z[i]]
    IN  Cardinality({p \in (1..Len(D)) \X (1..Len(D)) :
            /\ p[1] < p[2]
            /\ D[p[1]] * D[p[2]] < 0
            /\ \A k \in (p[1] + 1)..(p[2] - 1) : D[k] = 0})

\* C25: for a sequence of length m >= 3, tpi returns T / ((2/3)(m - 2)), T
\* the number of neighbours of opposite sign in the difference list without
\* its zeros: a tie neither counts as a reversal nor breaks the reversal
\* across it.  The quotient the result stands for is T * 3 / (2 * (m - 2)),
\* and the double returned is the one T / ((2/3)(m - 2)) evaluates to.
C25_TpiCountsReversals ==
    (output # NoOutput /\ output.op = "tpi" /\ Len(sequence.items) >= 3) =>
        LET z == sequence.items
            m == Len(z)
            T == Reversals(z)
        IN  /\ output.result.raised = "none"
            /\ output.result.value.d > 0
            /\ output.result.value.n * 2 * (m - 2) = 3 * T * output.result.value.d
            /\ output.float = TpiDoubles[m][T]

\* tpi returned 3/4 for 1, 2, 2, 1: one reversal, across the tie, over
\* (2/3) * 2.
C25_Witness ==
    /\ output # NoOutput
    /\ output.op = "tpi"
    /\ sequence.items = <<1, 2, 2, 1>>
    /\ Reversals(sequence.items) = 1
    /\ output.result.value = [n |-> 3, d |-> 4]

\* 1.5
OneAndAHalf == DoubleOver(DoubleOfInt(3), DoubleOfInt(2))

\* Every neighbouring pair of differences of z is non-zero and of opposite
\* sign.
StrictlyAlternating(z) ==
    \A i \in 1..(Len(z) - 2) : (z[i + 1] - z[i]) * (z[i + 2] - z[i + 1]) < 0

\* C29: for every sequence of length m >= 3 the turning points tpi counts are
\* at most m - 2 and the value it returns is between 0 and 1.5, 1.5 being
\* returned exactly for the strictly alternating sequences.
C29_TpiAtMostOneAndAHalf ==
    (output # NoOutput /\ output.op = "tpi" /\ Len(sequence.items) >= 3) =>
        /\ tpi_tp(sequence.items) <= Len(sequence.items) - 2
        /\ ~DoubleLess(OneAndAHalf, output.float)
        /\ (output.float = OneAndAHalf) <=> StrictlyAlternating(sequence.items)

\* The same of the quotient the double stands for: it is the rounding of
\* (2/3) * (m - 2) and of the division by it that takes the double above 1.5.
C29_QuotientAtMostOneAndAHalf ==
    (output # NoOutput /\ output.op = "tpi" /\ Len(sequence.items) >= 3) =>
        /\ tpi_tp(sequence.items) <= Len(sequence.items) - 2
        /\ 2 * output.result.value.n <= 3 * output.result.value.d
        /\ (2 * output.result.value.n = 3 * output.result.value.d)
               <=> StrictlyAlternating(sequence.items)

\* tpi returned more than 1.5 for the strictly alternating 0, 1, 0, 1, 0, 1, 0.
C29_AlternatingAboveOneAndAHalf ==
    /\ output # NoOutput
    /\ output.op = "tpi"
    /\ sequence.items = <<0, 1, 0, 1, 0, 1, 0>>
    /\ StrictlyAlternating(sequence.items)
    /\ DoubleLess(OneAndAHalf, output.float)


(***************************************************************************)
(* coupon.                                                                 *)
(***************************************************************************)
\* The symbols of z[i .. i + L - 1].
SymbolsOfRun(z, i, L) == {z[k] : k \in i..(i + L - 1)}

\* The run lengths from start i that hold every symbol of 0 .. base - 1.
FullRuns(z, i, base) ==
    {L \in 1..(Len(z) - i + 1) : (0..(base - 1)) \subseteq SymbolsOfRun(z, i, L)}

\* The starts of z from which a run holds every symbol.
CompletingStarts(z, base) == {i \in 1..Len(z) : FullRuns(z, i, base) # {}}

\* The minimal length of a full run from the completing start i.
MinimalRun(z, i, base) ==
    CHOOSE L \in FullRuns(z, i, base) : \A other \in FullRuns(z, i, base) : L <= other

RECURSIVE TotalOver(_, _)
TotalOver(S, f) ==
    IF S = {} THEN 0
    ELSE LET x == CHOOSE y \in S : TRUE IN f[x] + TotalOver(S \ {x}, f)

\* C26: coupon(z) records for every start i the minimal length L such that
\* z[i .. i + L - 1] holds every symbol 0 .. base - 1, when there is one, and
\* returns the mean and the sample standard deviation (divisor n - 1, 0.0
\* with fewer than two lengths) of the recorded lengths; when no start
\* completes both are len(z) + 1.
C26_CouponMeanAndStd ==
    (output # NoOutput /\ output.op = "coupon") =>
        LET z == sequence.items
            starts == CompletingStarts(z, output.base)
            n == Cardinality(starts)
            L == [i \in starts |-> MinimalRun(z, i, output.base)]
            total == TotalOver(starts, L)
            \* the squared deviations from the mean, scaled by n * n
            deviations == [i \in starts |-> (n * L[i] - total) * (n * L[i] - total)]
            squares == TotalOver(starts, deviations)
            r == output.result
        IN  /\ r.raised = "none"
            /\ n = 0 => /\ r.mean = [n |-> Len(z) + 1, d |-> 1]
                        /\ r.std = [n |-> Len(z) + 1, d |-> 1]
            /\ n > 0 => SameValue(r.mean, [n |-> total, d |-> n])
            /\ n = 1 => r.std = Zero
            /\ (n > 1 /\ squares = 0) => r.std = Zero
            /\ (n > 1 /\ squares > 0) =>
                   /\ r.std # Zero
                   /\ r.std.kind = "sqrt"
                   /\ SameValue([n |-> r.std.n, d |-> r.std.d],
                                [n |-> squares, d |-> n * n * (n - 1)])

\* coupon returned mean 10/3 and the root of 1/3 for 0, 0, 1, 2, 0 over three
\* symbols: the starts 1, 2 and 3 complete, after 4, 3 and 3 steps.
C26_Witness ==
    /\ output # NoOutput
    /\ output.op = "coupon"
    /\ output.base = 3
    /\ sequence.items = <<0, 0, 1, 2, 0>>
    /\ CompletingStarts(sequence.items, 3) = {1, 2, 3}
    /\ SameValue(output.result.mean, [n |-> 10, d |-> 3])
    /\ output.result.std # Zero
    /\ SameValue([n |-> output.result.std.n, d |-> output.result.std.d],
                 [n |-> 1, d |-> 3])

\* coupon returned len(z) + 1 twice for a sequence no start of which
\* completes.
C26_WitnessDefault ==
    /\ output # NoOutput
    /\ output.op = "coupon"
    /\ output.base = 3
    /\ sequence.items = <<0, 1, 0, 1>>
    /\ output.result.mean = [n |-> 5, d |-> 1]
    /\ output.result.std = [n |-> 5, d |-> 1]

\* C28: in coupon(z) the starts that complete a full set form a prefix of
\* the index range: when the run from start i collects every symbol so does
\* the run from every earlier start; every recorded length L_i has
\* base <= L_i <= len(z) - i (i counted from 0), and the end position
\* i + L_i does not decrease with i.
C28_CompletingStartsFormPrefix ==
    (output # NoOutput /\ output.op = "coupon") =>
        LET seq == _prepare_sequence(sequence)
            base == output.base
            L == [i \in 1..Len(seq) |-> StepsToCollect(seq, i, base)]
        IN  /\ \A i \in 1..Len(seq) : \A j \in 1..(i - 1) : L[i] > 0 => L[j] > 0
            /\ \A i \in 1..Len(seq) :
                   L[i] > 0 => (base <= L[i] /\ L[i] <= Len(seq) - (i - 1))
            /\ \A i \in 1..Len(seq) : \A j \in 1..(i - 1) :
                   L[i] > 0 => j + L[j] <= i + L[i]

\* coupon recorded the lengths 4, 3 and 3 for the starts 0, 1 and 2 of
\* 0, 0, 1, 2, 0 and none for the starts 3 and 4.
C28_Witness ==
    /\ output # NoOutput
    /\ output.op = "coupon"
    /\ output.base = 3
    /\ sequence.items = <<0, 0, 1, 2, 0>>
    /\ [i \in 1..5 |-> StepsToCollect(sequence.items, i, 3)] = <<4, 3, 3, 0, 0>>


(***************************************************************************)
(* pl1 .. pl5.                                                             *)
(***************************************************************************)
\* The positions, in the differences of s without the zeros, where the sign
\* changes from one difference to the next.
TurningPositions(s) ==
    LET D == SelectSeq([i \in range(Len(s) - 1) |-> s[i + 1] - s[i]],
                       LAMBDA x : x # 0)
    IN  {i \in 1..(Len(D) - 1) :
            (D[i] > 0 /\ D[i + 1] < 0) \/ (D[i] < 0 /\ D[i + 1] > 0)}

\* The pairs of consecutive turning points of s that are d apart.
PairsApart(s, d) ==
    LET tps == TurningPositions(s)
    IN  Cardinality({i \in tps :
            i + d \in tps /\ \A k \in (i + 1)..(i + d - 1) : k \notin tps})

\* The t-th sequence of m values the generator yields after the import.
RandomSequence(t, m, base) == [j \in 1..m |-> Stream(Seed, t * m + j - 1, base)]

RECURSIVE SumOfRange(_, _, _)
SumOfRange(f, lo, hi) ==
    IF lo > hi THEN 0
    ELSE IF lo = hi THEN f[lo]
    ELSE SumOfRange(f, lo, (lo + hi) \div 2)
           + SumOfRange(f, (lo + hi) \div 2 + 1, hi)

\* C27: pl_d(z) for d in 1..5 returns 0.0 without running the simulation
\* when len(z) < d + 3; otherwise it draws exactly 1000 random sequences of
\* the length and alphabet of z, returns 0.0 when the average over them of
\* the number of consecutive turning-point pairs d apart is not above 0, and
\* observed / expected otherwise, observed being that number for z.
C27_PlObservedOverSimulated ==
    (output # NoOutput /\ output.op = "pl_d") =>
        LET z == sequence.items
            m == Len(z)
            d == output.d
            observed == PairsApart(z, d)
            counts == [t \in 0..999 |-> PairsApart(RandomSequence(t, m, output.base), d)]
            total == SumOfRange(counts, 0, 999)
        IN  /\ m < d + 3 => (output.value = Zero /\ random_state.drawn = 0)
            /\ m >= d + 3 =>
                   /\ random_state.drawn = 1000 * m
                   /\ total = 0 => output.value = Zero
                   /\ total > 0 =>
                          /\ output.value.d > 0
                          /\ output.value.n * total = observed * 1000 * output.value.d

\* pl1 of 0, 1, 0, 1, 0 with base 10 returned a value above 0: two pairs of
\* turning points 1 apart over the simulated average.
C27_Witness ==
    /\ output # NoOutput
    /\ output.op = "pl_d"
    /\ output.d = 1 /\ output.base = 10
    /\ sequence.items = <<0, 1, 0, 1, 0>>
    /\ PairsApart(sequence.items, 1) = 2
    /\ output.value.n > 0
    /\ random_state.drawn = 5000

\* pl2 of 0, 1, 0, 1, 0 with base 2 returned 0.0 after the simulation: over
\* two symbols every difference kept changes sign, so no two turning points
\* are 2 apart and the expected count is 0.
C27_WitnessExpectedZero ==
    /\ output # NoOutput
    /\ output.op = "pl_d"
    /\ output.d = 2 /\ output.base = 2
    /\ sequence.items = <<0, 1, 0, 1, 0>>
    /\ output.value = Zero
    /\ random_state.drawn = 5000

\* pl2 of 0, 1, 0, 1 returned 0.0 and drew nothing.
C27_WitnessShort ==
    /\ output # NoOutput
    /\ output.op = "pl_d"
    /\ output.d = 2
    /\ sequence.items = <<0, 1, 0, 1>>
    /\ output.value = Zero
    /\ random_state.drawn = 0

====
